---- MODULE Spec2Model ----
(***************************************************************************)
(* The embedded data-access engine of mockably-predev (class IDB, idb.ts)  *)
(* on top of an IndexedDB-like backend: the handle's open/readiness        *)
(* lifecycle, store creation on the upgrade path, the transaction gateway  *)
(* that bridges request/transaction events to one promise, and the CRUD    *)
(* operations built on it.                                                 *)
(***************************************************************************)
EXTENDS Integers, Sequences, FiniteSets, TLC

(* ------------------------------ bounds --------------------------------- *)
\* open() calls made on the one handle
MaxOpens == 2
\* versions a handle may be constructed with: 1..MaxVersion
MaxVersion == 2
\* CRUD operations started on a handle that is being opened (Spec)
LifecycleOps == 1
\* CRUD operations started on a ready handle (SpecCrud)
MaxOps == 2
\* records the store holds when the first operation of SpecCrud starts
MaxRecords == 2
\* backend failures (a failed request, a transaction aborted at commit)
MaxFaults == 1
\* calls made on one column builder
MaxCalls == 4
\* records in the array a query is applied to
MaxRows == 3
\* orderBy() calls on one query
MaxOrder == 2
\* the largest count passed to limit()
MaxLimit == 2
MaxKeys == 2

(* ------------------------------ values --------------------------------- *)
\* A JavaScript value of a record field: a tag and an integer payload, so
\* that values of different JavaScript types can be compared.
Null == [t |-> "null", v |-> 0]
Num(i) == [t |-> "num", v |-> i]
Bool(b) == [t |-> "bool", v |-> IF b THEN 1 ELSE 0]
Date(i) == [t |-> "date", v |-> i]
Str(i) == [t |-> "str", v |-> i]

(* ------------------------------ schema --------------------------------- *)
StoreNames == {"todos", "notes"}

\* ColumnDefinition, with the column's name (the key of the store schema).
Col(n, ty, pk, ai, uq) ==
  [name |-> n, type |-> ty, isPrimaryKey |-> pk, isAutoIncrement |-> ai, isUnique |-> uq]

TodosCols ==
  << Col("id", "NUMBER", TRUE, TRUE, FALSE),
     Col("title", "STRING", FALSE, FALSE, FALSE),
     Col("completed", "BOOLEAN", FALSE, FALSE, FALSE),
     Col("updatedAt", "DATE", FALSE, FALSE, FALSE) >>

NotesCols ==
  << Col("key", "STRING", TRUE, FALSE, FALSE),
     Col("body", "STRING", FALSE, FALSE, TRUE) >>

\* a store schema with no primary-key column
NoPkCols == << Col("body", "STRING", FALSE, FALSE, FALSE) >>

\* a store schema with two primary-key columns
TwoPkCols ==
  << Col("id", "NUMBER", TRUE, FALSE, FALSE),
     Col("key", "STRING", TRUE, FALSE, FALSE) >>

StoreDef(n, cols) == [name |-> n, columns |-> cols]

\* The parsed schemas open() is called with, each a sequence of stores in
\* Object.entries order.
Schemas ==
  << << StoreDef("todos", TodosCols) >>,
     << StoreDef("todos", TodosCols), StoreDef("notes", NotesCols) >>,
     << StoreDef("todos", TodosCols), StoreDef("notes", NoPkCols) >>,
     << StoreDef("notes", TwoPkCols) >> >>

SchemaIds == 1..Len(Schemas)

SchemaStoreNames(s) == { Schemas[s][i].name : i \in 1..Len(Schemas[s]) }

SchemaColumns(s, storeName) ==
  LET i == CHOOSE j \in 1..Len(Schemas[s]) : Schemas[s][j].name = storeName
  IN Schemas[s][i].columns

\* the number of primary-key columns of a store schema
PkCount(cols) == Cardinality({ i \in 1..Len(cols) : cols[i].isPrimaryKey })

(* ---------------------------- query engine ----------------------------- *)
Undefined == [t |-> "undef", v |-> 0]

\* The strings of the model: Str(i) is StrTable[i], a sequence of characters.
\* The table is in JavaScript's string order, so Str(i) < Str(j) iff i < j.
StrTable == << << "A", "b" >>, << "a" >>, << "b" >> >>

LowerChar(c) == IF c = "A" THEN "a" ELSE IF c = "B" THEN "b" ELSE c

\* String.prototype.toLowerCase
ToLowerCase(cs) == [i \in 1..Len(cs) |-> LowerChar(cs[i])]

\* String.prototype.includes
Includes(cs, sub) ==
  \E i \in 0..(Len(cs) - Len(sub)) : \A j \in 1..Len(sub) : cs[i + j] = sub[j]

\* a === b: dates and arrays are objects, equal only when they are the same object,
\* which a stored record's date and a caller's date never are.
StrictEq(a, b) == a.t \notin {"date", "array"} /\ a = b

IsNumeric(a) == a.t \in {"num", "bool", "date"}

\* a < b, a <= b of JavaScript on the values of the model (undefined, and a
\* string against a number, compare false)
JsLess(a, b) ==
  \/ IsNumeric(a) /\ IsNumeric(b) /\ a.v < b.v
  \/ a.t = "str" /\ b.t = "str" /\ a.v < b.v
JsLessEq(a, b) ==
  \/ IsNumeric(a) /\ IsNumeric(b) /\ a.v <= b.v
  \/ a.t = "str" /\ b.t = "str" /\ a.v <= b.v

\* item[key]
Field(item, key) == IF key \in DOMAIN item THEN item[key] ELSE Undefined

\* the keys matches() looks for in an operator object
ScalarKeys ==
  {"equals", "notEquals", "greaterThan", "greaterThanOrEqual", "lessThan", "lessThanOrEqual"}
OperatorKeys == ScalarKeys \cup {"inArray", "isBetween", "contains", "looseContains"}

\* A per-field condition: a bare value, [bare |-> TRUE, val |-> v], or an
\* operator object, [bare |-> FALSE, ops |-> o], o a function from the keys
\* the object has to their operands. An operand is one value (Operand) or an
\* array of values (ArrayOperand): the elements of inArray, the bounds of
\* isBetween.
Operand(v) == [array |-> FALSE, elems |-> << v >>]
ArrayOperand(vs) == [array |-> TRUE, elems |-> vs]

\* an array where a value is read: equal to nothing, ordered with nothing
ArrayValue == [t |-> "array", v |-> 0]

BareCond(v) == [bare |-> TRUE, val |-> v, ops |-> << >>]
OpCond(o) == [bare |-> FALSE, val |-> Undefined, ops |-> o]

\* the callback of every() in matches(item): one field's condition
CondMatches(itemValue, cond) ==
  IF cond.bare THEN StrictEq(itemValue, cond.val)
  ELSE LET o == cond.ops
           Has(k) == k \in DOMAIN o
           Arg(k) == IF o[k].array THEN ArrayValue ELSE o[k].elems[1]
       IN IF Has("equals") THEN StrictEq(itemValue, Arg("equals"))
          ELSE IF Has("notEquals") THEN ~StrictEq(itemValue, Arg("notEquals"))
          ELSE IF Has("greaterThan")
            THEN itemValue # Null /\ Arg("greaterThan") # Null
                 /\ JsLess(Arg("greaterThan"), itemValue)
          ELSE IF Has("greaterThanOrEqual")
            THEN itemValue # Null /\ Arg("greaterThanOrEqual") # Null
                 /\ JsLessEq(Arg("greaterThanOrEqual"), itemValue)
          ELSE IF Has("lessThan")
            THEN itemValue # Null /\ Arg("lessThan") # Null
                 /\ JsLess(itemValue, Arg("lessThan"))
          ELSE IF Has("lessThanOrEqual")
            THEN itemValue # Null /\ Arg("lessThanOrEqual") # Null
                 /\ JsLessEq(itemValue, Arg("lessThanOrEqual"))
          ELSE IF Has("inArray") /\ o["inArray"].array
            THEN \E i \in 1..Len(o["inArray"].elems) :
                    StrictEq(itemValue, o["inArray"].elems[i])
          ELSE IF Has("isBetween") /\ o["isBetween"].array
                  /\ Len(o["isBetween"].elems) = 2
            THEN itemValue # Null /\ o["isBetween"].elems[1] # Null
                 /\ o["isBetween"].elems[2] # Null
                 /\ JsLessEq(o["isBetween"].elems[1], itemValue)
                 /\ JsLessEq(itemValue, o["isBetween"].elems[2])
          ELSE IF Has("contains") /\ itemValue.t = "str" /\ Arg("contains").t = "str"
            THEN Includes(StrTable[itemValue.v], StrTable[Arg("contains").v])
          ELSE IF Has("looseContains") /\ itemValue.t = "str"
                  /\ Arg("looseContains").t = "str"
            THEN Includes(ToLowerCase(StrTable[itemValue.v]),
                          ToLowerCase(StrTable[Arg("looseContains").v]))
          ELSE FALSE

\* a match that takes an empty set of conditions as matching nothing
MatchesSomeCondition(item, conditions) ==
  /\ DOMAIN conditions # {}
  /\ \A key \in DOMAIN conditions : CondMatches(Field(item, key), conditions[key])

\* a match that lets an operator object with none of the keys match
MatchesFailOpen(item, conditions) ==
  \A key \in DOMAIN conditions :
     IF ~conditions[key].bare /\ DOMAIN conditions[key].ops \cap OperatorKeys = {}
       THEN TRUE
       ELSE CondMatches(Field(item, key), conditions[key])

\* a match in which any key of an operator object that matches wins
MatchesAnyKey(item, conditions) ==
  \A key \in DOMAIN conditions :
     IF conditions[key].bare \/ DOMAIN conditions[key].ops = {}
       THEN CondMatches(Field(item, key), conditions[key])
       ELSE \E k \in DOMAIN conditions[key].ops :
               CondMatches(Field(item, key),
                           OpCond([x \in {k} |-> conditions[key].ops[x]]))

\* a match that reads a null field as the number it converts to
MatchesNullAsZero(item, conditions) ==
  \A key \in DOMAIN conditions :
     CondMatches(IF Field(item, key) = Null THEN Num(0) ELSE Field(item, key),
                 conditions[key])

\* matches(item): conditions is a function from field names to conditions
Matches(item, conditions) ==
  \A key \in DOMAIN conditions : CondMatches(Field(item, key), conditions[key])

\* the comparator of result.sort: orderBy is a sequence of [field, direction]
RECURSIVE Compare(_, _, _, _)
Compare(a, b, orderBy, i) ==
  IF i > Len(orderBy) THEN 0
  ELSE LET valA == Field(a, orderBy[i].field)
           valB == Field(b, orderBy[i].field)
           c == IF valA = Null /\ valB # Null THEN -1
                ELSE IF valA # Null /\ valB = Null THEN 1
                ELSE IF valA # Null /\ valB # Null
                  THEN (IF JsLess(valA, valB) THEN -1
                        ELSE IF JsLess(valB, valA) THEN 1 ELSE 0)
                ELSE 0
           comparison == IF orderBy[i].direction = "desc" THEN 0 - c ELSE c
       IN IF comparison # 0 THEN comparison ELSE Compare(a, b, orderBy, i + 1)

\* Array.prototype.sort is stable: x goes after the last element of the
\* sorted sequence that does not compare greater than it.
InsertSorted(sorted, x, orderBy) ==
  LET after == { i \in 1..Len(sorted) : Compare(sorted[i], x, orderBy, 1) <= 0 }
      k == IF after = {} THEN 0 ELSE CHOOSE i \in after : \A j \in after : j <= i
  IN SubSeq(sorted, 1, k) \o << x >> \o SubSeq(sorted, k + 1, Len(sorted))

RECURSIVE SortBy(_, _)
SortBy(s, orderBy) ==
  IF s = << >> THEN << >>
  ELSE InsertSorted(SortBy(SubSeq(s, 1, Len(s) - 1), orderBy), s[Len(s)], orderBy)

RECURSIVE Filter(_, _)
Filter(s, conditions) ==
  IF s = << >> THEN << >>
  ELSE IF Matches(Head(s), conditions)
    THEN << Head(s) >> \o Filter(Tail(s), conditions)
    ELSE Filter(Tail(s), conditions)

NoLimit == -1

\* result.slice(0, limitValue) when a non-negative limit is set
LimitTo(sorted, limitValue) ==
  IF limitValue # NoLimit /\ limitValue >= 0
    THEN SubSeq(sorted, 1, IF limitValue < Len(sorted) THEN limitValue ELSE Len(sorted))
    ELSE sorted

\* a sort that takes every ordering key as ascending
SortAscendingOnly(filtered, orderBy) ==
  IF Len(orderBy) > 0
    THEN SortBy(filtered, [i \in 1..Len(orderBy) |->
                             [field |-> orderBy[i].field, direction |-> "asc"]])
    ELSE filtered

\* a sort that looks at the first ordering key only
SortByFirstKeyOnly(filtered, orderBy) ==
  IF Len(orderBy) > 0 THEN SortBy(filtered, SubSeq(orderBy, 1, 1)) ELSE filtered

\* result.sort(...) when there are ordering keys
SortIfOrdered(filtered, orderBy) ==
  IF Len(orderBy) > 0 THEN SortBy(filtered, orderBy) ELSE filtered

\* a query that cuts the filtered records to the limit before sorting them
ApplyQueryLimitFirst(s, conditions, orderBy, limitValue) ==
  SortIfOrdered(LimitTo(Filter(s, conditions), limitValue), orderBy)

\* applyQuery(data): filter, then sort, then limit (NoLimit for undefined)
ApplyQuery(s, conditions, orderBy, limitValue) ==
  LimitTo(SortIfOrdered(Filter(s, conditions), orderBy), limitValue)

(* ------------------------------ backend -------------------------------- *)
NoStore == [exists |-> FALSE, keyPath |-> "", autoIncrement |-> FALSE, indexes |-> {}]

\* the backend's object store created for a valid store schema
TodosStore == [exists |-> TRUE, keyPath |-> "id", autoIncrement |-> TRUE, indexes |-> {}]
NotesStore == [exists |-> TRUE, keyPath |-> "key", autoIncrement |-> FALSE, indexes |-> {"body"}]

ConnIds == 1..MaxOpens

VARIABLES
  \* the handle (class IDB)
  version,          \* this.version
  db,               \* this._db: a connection id, or 0 for undefined
  schemaDefinition, \* this.schemaDefinition: a schema id, or 0 for undefined
  ready,            \* state of this.readyPromise
  readyReason,      \* the reason this.readyPromise was rejected with
  tables,           \* this.tables: store name -> schema id its operations are bound to, 0 if absent
  opened,           \* number of open() calls made
  \* the backend
  dbVersion,        \* version of the stored database, 0 when it does not exist
  stores,           \* store name -> object store descriptor
  conns,            \* connection id -> "none" | "open" | "closed"
  openQueue,        \* the handle's open requests, in order: [conn, phase]
  vcHandlers,       \* connections with an onversionchange handler
  otherPending,     \* another process has requested a newer version
  vcPending,        \* connections a versionchange event is still to be delivered to
  data,             \* store name -> (key -> record)
  nextKey,          \* store name -> the key generator of an auto-increment store
  txs,              \* the gateway calls made, in order
  faults,           \* backend failures so far
  \* the CRUD operations called, in order
  ops,
  clock,            \* the time new Date() reads
  \* observations
  readyCalls,       \* calls of resolveReady / rejectReady so far
  settles,          \* times the readiness promise changed state
  upg,              \* the last run of the onupgradeneeded handler
  res,              \* the onsuccess run that resolved the readiness promise
  vcDelivered,      \* a versionchange event was delivered to the handle
  reloads,          \* calls of window.location.reload()
  \* a column builder (BaseColumnBuilder) and its callers
  definition,       \* this.definition
  built,            \* what each build() call returned, as read at that call
  builderCalls,     \* the builder calls made, in order: [name, threw]
  \* a query (QueryBuilder) and the array it is applied to
  qbConditions,     \* this.conditions: field -> condition
  qbLimit,          \* this.limitValue, NoLimit for undefined
  qbOrderBy,        \* this.orderByConditions
  qbData,           \* the array passed to applyQuery
  qbResult,         \* what applyQuery returned for the query as it is now
  \* the provider (IDBProvider) that owns the handle
  isDBInitialized,        \* its isDBInitialized state
  dbInitializationError,  \* its dbInitializationError state, "null" for null
  subscribed              \* effect runs whose then/catch handlers have not run yet

handleVars == << version, db, schemaDefinition, ready, readyReason, tables, opened >>
backendVars == << dbVersion, stores, conns, openQueue, vcHandlers, otherPending, vcPending >>
crudVars == << data, nextKey, txs, faults, ops, clock >>
obsVars == << readyCalls, settles, upg, res, vcDelivered, reloads >>
builderVars == << definition, built, builderCalls >>
queryVars == << qbConditions, qbLimit, qbOrderBy, qbData, qbResult >>
providerVars == << isDBInitialized, dbInitializationError, subscribed >>
pureVars == << builderVars, queryVars, providerVars >>
vars == << handleVars, backendVars, crudVars, obsVars, pureVars >>

(* ----------------------- the readiness promise ------------------------- *)
\* a resolveReady() that settles the readiness promise again
ResolveReadyAgain(r) == "resolved"

\* resolveReady(): a promise settles once; later calls change nothing.
ResolveReady(r) == IF r = "pending" THEN "resolved" ELSE r

\* rejectReady(err)
RejectReady(r) == IF r = "pending" THEN "rejected" ELSE r

RejectReason(r, old, err) == IF r = "pending" THEN err ELSE old

Settled(r, r2) == IF r # r2 THEN 1 ELSE 0

(* ------------------------- createObjectStore --------------------------- *)
\* The scan of the columns for the primary key (the first forEach), from
\* column i on: pk is the primaryKeyPath found so far ("" for undefined).
RECURSIVE ScanColumns(_, _, _, _)
ScanColumns(cols, i, pk, auto) ==
  IF i > Len(cols) THEN [threw |-> FALSE, pk |-> pk, auto |-> auto]
  ELSE IF cols[i].isPrimaryKey
    THEN IF pk # ""
           THEN [threw |-> TRUE, pk |-> pk, auto |-> auto]
           ELSE IF cols[i].isAutoIncrement
                  THEN IF cols[i].type # "NUMBER"
                         THEN [threw |-> TRUE, pk |-> cols[i].name, auto |-> auto]
                         ELSE ScanColumns(cols, i + 1, cols[i].name, TRUE)
                  ELSE ScanColumns(cols, i + 1, cols[i].name, auto)
    ELSE ScanColumns(cols, i + 1, pk, auto)

\* a createObjectStore without the check for an existing store: the backend
\* refuses to create a store under a name it already holds
CreateObjectStoreNoSkip(st, storeName, cols) ==
  LET scan == ScanColumns(cols, 1, "", FALSE)
  IN IF scan.threw \/ scan.pk = "" \/ st[storeName].exists
       THEN [threw |-> TRUE, stores |-> st]
       ELSE [threw |-> FALSE,
             stores |-> [st EXCEPT ![storeName] =
               [exists |-> TRUE, keyPath |-> scan.pk, autoIncrement |-> scan.auto,
                indexes |-> { cols[i].name : i \in
                              { j \in 1..Len(cols) :
                                  cols[j].isUnique /\ cols[j].name # scan.pk } }]]]

\* a createObjectStore that keys the store by its last column and leaves
\* auto-increment off
CreateObjectStoreLastColumn(st, storeName, cols) ==
  IF st[storeName].exists
    THEN [threw |-> FALSE, stores |-> st]
    ELSE LET scan == ScanColumns(cols, 1, "", FALSE)
         IN IF scan.threw \/ scan.pk = ""
              THEN [threw |-> TRUE, stores |-> st]
              ELSE [threw |-> FALSE,
                    stores |-> [st EXCEPT ![storeName] =
                      [exists |-> TRUE, keyPath |-> cols[Len(cols)].name, autoIncrement |-> FALSE,
                       indexes |-> {}]]]

\* createObjectStore(storeName, columns) on the stores st of the connection:
\* whether it threw, and the stores afterwards.
CreateObjectStore(st, storeName, cols) ==
  IF st[storeName].exists
    THEN [threw |-> FALSE, stores |-> st]
    ELSE LET scan == ScanColumns(cols, 1, "", FALSE)
         IN IF scan.threw \/ scan.pk = ""
              THEN [threw |-> TRUE, stores |-> st]
              ELSE [threw |-> FALSE,
                    stores |-> [st EXCEPT ![storeName] =
                      [exists |-> TRUE, keyPath |-> scan.pk, autoIncrement |-> scan.auto,
                       indexes |-> { cols[i].name : i \in
                                     { j \in 1..Len(cols) :
                                         cols[j].isUnique /\ cols[j].name # scan.pk } }]]]

\* The forEach over the stores of the schema in onupgradeneeded, from store
\* i on: it stops at the first store whose creation throws.
RECURSIVE CreateStores(_, _, _)
CreateStores(st, s, i) ==
  IF i > Len(Schemas[s]) THEN [threw |-> FALSE, stores |-> st]
  ELSE LET r == CreateObjectStore(st, Schemas[s][i].name, Schemas[s][i].columns)
       IN IF r.threw THEN r ELSE CreateStores(r.stores, s, i + 1)

\* initializeTableMethods(processedSchema): this.tables afterwards
InitializeTableMethods(tb, s) ==
  [n \in StoreNames |-> IF n \in SchemaStoreNames(s) THEN s ELSE tb[n]]

(* ------------------------------- Init ---------------------------------- *)
NoUpgrade == [ran |-> FALSE, schema |-> 0, before |-> [n \in StoreNames |-> NoStore],
              threw |-> FALSE, readyBefore |-> "pending"]
NoResolve == [done |-> FALSE, upgraded |-> FALSE, upgSchema |-> 0, schema |-> 0, missing |-> {},
              called |-> 0]

\* The stores a database that already exists may hold.
PriorStores ==
  { [n \in StoreNames |->
       IF n \in S THEN (IF n = "todos" THEN TodosStore ELSE NotesStore) ELSE NoStore]
    : S \in SUBSET StoreNames }

InitBackend ==
  /\ dbVersion \in 0..(MaxVersion + 1)
  /\ stores \in IF dbVersion = 0 THEN { [n \in StoreNames |-> NoStore] } ELSE PriorStores
  /\ conns = [c \in ConnIds |-> "none"]
  /\ openQueue = << >>
  /\ vcHandlers = {}
  /\ otherPending = FALSE
  /\ vcPending = {}

\* new IDB(dbName, version)
InitHandle ==
  /\ version \in 1..MaxVersion
  /\ db = 0
  /\ schemaDefinition = 0
  /\ ready = "pending"
  /\ readyReason = "none"
  /\ tables = [n \in StoreNames |-> 0]
  /\ opened = 0

InitObs ==
  /\ readyCalls = 0
  /\ settles = 0
  /\ upg = NoUpgrade
  /\ res = NoResolve
  /\ vcDelivered = FALSE
  /\ reloads = 0

\* The records a store may hold: record i of the sample.
SampleRecord(i) ==
  [id |-> Num(i), title |-> Str(1 + (i % 3)), completed |-> Bool(i % 2 = 0),
   updatedAt |-> IF i % 2 = 1 THEN Null ELSE Date(0)]

SampleData(n) == [k \in 1..n |-> SampleRecord(k)]

\* A store that exists before the handle is opened holds one record.
InitCrudState ==
  /\ data = [n \in StoreNames |->
               IF n = "todos" /\ stores[n].exists THEN SampleData(1) ELSE << >>]
  /\ nextKey = [n \in StoreNames |-> IF n = "todos" /\ stores[n].exists THEN 2 ELSE 1]
  /\ txs = << >>
  /\ faults = 0
  /\ ops = << >>
  /\ clock = 1

(* --------------------------- column builder ---------------------------- *)
ColumnTypes == {"STRING", "NUMBER", "BOOLEAN", "DATE", "OBJECT", "ARRAY"}

\* A flag of ColumnDefinition is "true", "false", or "absent" for a key the
\* object does not have.
\* the definition a new builder of the given type holds: { _type: type }
NewDefinition(type) ==
  [_type |-> type, _isPrimaryKey |-> "absent", _isAutoIncrement |-> "absent",
   _isNullable |-> "absent", _isUnique |-> "absent"]

\* a flag read as a condition: absent (undefined) is falsy
Truthy(flag) == flag = "true"

\* a builder no call was made on
InitBuilder(type) ==
  /\ definition = NewDefinition(type)
  /\ built = << >>
  /\ builderCalls = << >>

\* applyQuery not called yet
NoResult == [done |-> FALSE, rows |-> << >>]

\* new QueryBuilder(), to be applied to the array d
InitQuery(d) ==
  /\ qbConditions = << >>
  /\ qbLimit = NoLimit
  /\ qbOrderBy = << >>
  /\ qbData = d
  /\ qbResult = NoResult

\* useState(false), useState(null); no effect has run yet
InitProvider ==
  /\ isDBInitialized = FALSE
  /\ dbInitializationError = "null"
  /\ subscribed = 0

Init ==
  /\ InitHandle /\ InitBackend /\ InitCrudState /\ InitObs
  /\ InitBuilder("NUMBER") /\ InitQuery(<< >>)
  /\ InitProvider

(* ------------------------------- open ---------------------------------- *)
\* open(fluentSchema): parse the schema, store it, and place an open request
\* for (dbName, version) with the backend; the result is this.readyPromise.
OpenCall(s) ==
  /\ opened < MaxOpens
  /\ opened' = opened + 1
  /\ schemaDefinition' = s
  /\ openQueue' = Append(openQueue, [conn |-> opened + 1, phase |-> "queued", schema |-> s])
  /\ UNCHANGED << version, db, ready, readyReason, tables >>
  /\ UNCHANGED << dbVersion, stores, conns, vcHandlers, otherPending, vcPending >>
  /\ UNCHANGED obsVars
  /\ UNCHANGED << crudVars, builderVars, queryVars >>

\* open called by something other than the provider
Open(s) == OpenCall(s) /\ UNCHANGED providerVars

\* The backend serves the open requests of a database in order, and a
\* request placed after another process's request for a newer version waits
\* for that one.
HeadIs(phase) ==
  /\ openQueue # << >>
  /\ ~otherPending
  /\ Head(openQueue).phase = phase

\* request.onupgradeneeded: the stored version is behind the requested one.
\* The handler runs inside the backend's versionchange transaction; when it
\* throws, the backend aborts that transaction, which undoes the stores it
\* created and closes the connection, and an error event follows.
OnUpgradeNeeded ==
  /\ HeadIs("queued")
  /\ dbVersion < version
  /\ LET c == Head(openQueue).conn
         r == CreateStores(stores, schemaDefinition, 1)
         ready2 == IF r.threw THEN RejectReady(ready) ELSE ready
     IN /\ db' = c
        /\ ready' = ready2
        /\ readyReason' = IF r.threw THEN RejectReason(ready, readyReason, "InvalidSchema")
                                     ELSE readyReason
        /\ readyCalls' = readyCalls + (IF r.threw THEN 1 ELSE 0)
        /\ settles' = settles + Settled(ready, ready2)
        /\ stores' = IF r.threw THEN stores ELSE r.stores
        /\ conns' = [conns EXCEPT ![c] = IF r.threw THEN "closed" ELSE "open"]
        /\ openQueue' = << [Head(openQueue) EXCEPT
                              !.phase = IF r.threw THEN "failed" ELSE "upgraded"] >>
                        \o Tail(openQueue)
        /\ upg' = [ran |-> TRUE, schema |-> schemaDefinition, before |-> stores,
                   threw |-> r.threw, readyBefore |-> ready]
  /\ UNCHANGED << version, schemaDefinition, tables, opened >>
  /\ UNCHANGED << dbVersion, vcHandlers, otherPending, vcPending >>
  /\ UNCHANGED << res, vcDelivered, reloads >>
  /\ UNCHANGED << crudVars, pureVars >>

\* The backend aborts the versionchange transaction after the handler ran
\* (a storage failure): the stores it created are undone, the connection is
\* closed, and an error event follows.
UpgradeAbort ==
  /\ HeadIs("upgraded")
  /\ stores' = upg.before
  /\ conns' = [conns EXCEPT ![Head(openQueue).conn] = "closed"]
  /\ openQueue' = << [Head(openQueue) EXCEPT !.phase = "failed"] >> \o Tail(openQueue)
  /\ UNCHANGED handleVars
  /\ UNCHANGED << dbVersion, vcHandlers, otherPending, vcPending >>
  /\ UNCHANGED obsVars
  /\ UNCHANGED << crudVars, pureVars >>

\* a versionchange handler that leaves the connection open
CloseDbSkipped(cn, d) == cn

\* the connections after this._db?.close()
CloseDb(cn, d) == IF d # 0 THEN [cn EXCEPT ![d] = "closed"] ELSE cn

\* request.onsuccess: after the versionchange transaction committed, or at
\* once when the stored version is the requested one.
OnSuccess ==
  /\ \/ HeadIs("upgraded")
     \/ HeadIs("queued") /\ dbVersion = version
  /\ LET c == Head(openQueue).conn
         upgraded == Head(openQueue).phase = "upgraded"
         ready2 == ResolveReady(ready)
     IN /\ db' = c
        /\ conns' = [conns EXCEPT ![c] = "open"]
        /\ dbVersion' = version
        /\ vcHandlers' = vcHandlers \cup {c}
        /\ tables' = InitializeTableMethods(tables, schemaDefinition)
        /\ ready' = ready2
        /\ readyCalls' = readyCalls + 1
        /\ settles' = settles + Settled(ready, ready2)
        /\ res' = IF ready = "pending"
                    THEN [done |-> TRUE, upgraded |-> upgraded,
                          upgSchema |-> IF upgraded THEN upg.schema ELSE 0,
                          schema |-> schemaDefinition,
                          missing |-> { n \in SchemaStoreNames(schemaDefinition) :
                                          ~stores[n].exists },
                          called |-> Head(openQueue).schema]
                    ELSE res
  /\ openQueue' = Tail(openQueue)
  /\ UNCHANGED << version, schemaDefinition, readyReason, opened >>
  /\ UNCHANGED << stores, otherPending, vcPending >>
  /\ UNCHANGED << upg, vcDelivered, reloads >>
  /\ UNCHANGED << crudVars, pureVars >>

\* request.onerror: the error event after an aborted upgrade, a stored
\* version ahead of the requested one (VersionError), or a backend failure.
OnError ==
  /\ \/ HeadIs("failed")
     \/ HeadIs("queued")
  /\ LET ready2 == RejectReady(ready)
     IN /\ ready' = ready2
        /\ readyReason' = RejectReason(ready, readyReason, "OpenError")
        /\ readyCalls' = readyCalls + 1
        /\ settles' = settles + Settled(ready, ready2)
  /\ openQueue' = Tail(openQueue)
  /\ UNCHANGED << version, db, schemaDefinition, tables, opened >>
  /\ UNCHANGED << dbVersion, stores, conns, vcHandlers, otherPending, vcPending >>
  /\ UNCHANGED << upg, res, vcDelivered, reloads >>
  /\ UNCHANGED << crudVars, pureVars >>

(* --------------------------- version change ---------------------------- *)
OpenConns == { c \in ConnIds : conns[c] = "open" }

\* Another process requests a newer version of the database while the
\* handle holds open connections: each of them is sent a versionchange event.
OtherRequestsNewerVersion ==
  /\ openQueue = << >>
  /\ ~otherPending
  /\ OpenConns # {}
  /\ otherPending' = TRUE
  /\ vcPending' = OpenConns
  /\ UNCHANGED handleVars
  /\ UNCHANGED << dbVersion, stores, conns, openQueue, vcHandlers >>
  /\ UNCHANGED obsVars
  /\ UNCHANGED << crudVars, pureVars >>

\* this._db.onversionchange of connection c: close this._db, alert, reload.
OnVersionChange(c) ==
  /\ c \in vcPending
  /\ conns[c] = "open"
  /\ c \in vcHandlers
  /\ conns' = CloseDb(conns, db)
  /\ vcPending' = vcPending \ {c}
  /\ vcDelivered' = TRUE
  /\ reloads' = reloads + 1
  /\ UNCHANGED handleVars
  /\ UNCHANGED << dbVersion, stores, openQueue, vcHandlers, otherPending >>
  /\ UNCHANGED << readyCalls, settles, upg, res >>
  /\ UNCHANGED << crudVars, pureVars >>

\* With every connection to the database closed, the other process's
\* upgrade runs and the stored version moves ahead.
OtherUpgradeDone ==
  /\ otherPending
  /\ OpenConns = {}
  /\ otherPending' = FALSE
  /\ vcPending' = {}
  /\ dbVersion' = dbVersion + 1
  /\ UNCHANGED handleVars
  /\ UNCHANGED << stores, conns, openQueue, vcHandlers >>
  /\ UNCHANGED obsVars
  /\ UNCHANGED << crudVars, pureVars >>

(* ------------------------ transaction gateway -------------------------- *)
\* The promise a gateway call returns: its state, what it settled with, the
\* calls of resolve/reject made on it and how many of them changed its state.
PendingPromise ==
  [state |-> "pending", result |-> Undefined, error |-> "", calls |-> 0, settles |-> 0]

\* resolve(value), reject(err): only the first call on a promise settles it.
PromiseResolve(p, value) ==
  IF p.state = "pending"
    THEN [state |-> "resolved", result |-> value, error |-> "",
          calls |-> p.calls + 1, settles |-> p.settles + 1]
    ELSE [p EXCEPT !.calls = @ + 1]

PromiseReject(p, err) ==
  IF p.state = "pending"
    THEN [state |-> "rejected", result |-> Undefined, error |-> err,
          calls |-> p.calls + 1, settles |-> p.settles + 1]
    ELSE [p EXCEPT !.calls = @ + 1]

\* request.onsuccess = () => resolve(request.result)
RequestOnSuccess(p, request) == PromiseResolve(p, request.result)

\* a request.onerror that drops the request's error
RequestOnErrorLosesError(p, request) == PromiseReject(p, "AbortError")

\* request.onerror = () => reject(request.error)
RequestOnError(p, request) == PromiseReject(p, request.error)

\* transaction.onabort = () => reject(transaction.error || AbortError)
TransactionOnAbort(p, txError) ==
  PromiseReject(p, IF txError # "null" THEN txError ELSE "AbortError")

\* transaction.onerror = () => reject(transaction.error)
TransactionOnError(p, txError) == PromiseReject(p, txError)

NoWrite == [type |-> "none", key |-> 0, rec |-> << >>]
NoRequest == [result |-> Undefined, error |-> ""]

\* transaction(storeName, mode, task) called for operation o, up to the
\* registration of the handlers: the gateway call it makes. The call is
\* refused (rejected at once, no request placed) when there is no
\* connection, when _db.transaction throws (a connection that is closed or
\* still upgrading, a store the database does not hold), or when the task
\* throws (add of a record without a key into a store that generates none).
NewTx(o, store, kind, arg) ==
  LET tx(phase, promise) ==
        [op |-> o, kind |-> kind, store |-> store, arg |-> arg, phase |-> phase,
         promise |-> promise, request |-> NoRequest, events |-> << >>, write |-> NoWrite]
      refused(err) == tx("refused", PromiseReject(PendingPromise, err))
  IN IF db = 0 THEN refused("NotOpen")
     ELSE IF conns[db] # "open" THEN refused("InvalidStateError")
     ELSE IF ~stores[store].exists THEN refused("NotFoundError")
     ELSE IF kind = "add" /\ stores[store].keyPath \notin DOMAIN arg
             /\ ~stores[store].autoIncrement
       THEN refused("DataError")
     ELSE tx("active", PendingPromise)

Finished(phase) == phase \in {"done", "aborted", "refused"}

\* The backend runs the transactions on a store in the order they were
\* created.
CanRun(t) ==
  /\ txs[t].phase = "active"
  /\ \A u \in 1..(t - 1) : txs[u].store = txs[t].store => Finished(txs[u].phase)

RECURSIVE KeysInOrder(_)
KeysInOrder(S) ==
  IF S = {} THEN << >>
  ELSE LET m == CHOOSE x \in S : \A y \in S : x <= y
       IN << m >> \o KeysInOrder(S \ {m})

\* the result of getAll(): the records of the store in key order
GetAllResult(d) ==
  LET ks == KeysInOrder(DOMAIN d) IN [i \in 1..Len(ks) |-> d[ks[i]]]

\* What the backend's request of transaction tx yields on success: the
\* request's result and the write the transaction commits.
ExecRequest(tx) ==
  LET st == stores[tx.store]
      d == data[tx.store]
  IN CASE tx.kind = "getAll" -> [result |-> GetAllResult(d), write |-> NoWrite]
       [] tx.kind = "add" ->
            LET k == IF st.keyPath \in DOMAIN tx.arg
                       THEN tx.arg[st.keyPath].v ELSE nextKey[tx.store]
                rec == [f \in DOMAIN tx.arg \cup {st.keyPath} |->
                          IF f = st.keyPath THEN Num(k) ELSE tx.arg[f]]
            IN [result |-> Num(k), write |-> [type |-> "put", key |-> k, rec |-> rec]]
       [] tx.kind = "put" ->
            [result |-> tx.arg[st.keyPath],
             write |-> [type |-> "put", key |-> tx.arg[st.keyPath].v, rec |-> tx.arg]]
       [] tx.kind = "delete" ->
            [result |-> Undefined,
             write |-> [type |-> "delete", key |-> tx.arg.v, rec |-> << >>]]

\* the records of a store after a committed write
ApplyWrite(d, w) ==
  CASE w.type = "none" -> d
    [] w.type = "put" -> [k \in DOMAIN d \cup {w.key} |-> IF k = w.key THEN w.rec ELSE d[k]]
    [] w.type = "delete" -> [k \in DOMAIN d \ {w.key} |-> d[k]]

(* ------------------------- CRUD operations ----------------------------- *)
\* getPrimaryKeyPath(storeSchema): the first primary-key column, "" for
\* undefined
GetPrimaryKeyPath(cols) ==
  LET pks == { i \in 1..Len(cols) : cols[i].isPrimaryKey }
  IN IF pks = {} THEN ""
     ELSE cols[CHOOSE i \in pks : \A j \in pks : i <= j].name

\* a key check that lets only strings through
IsValidKeyStringsOnly(key) == key.t = "str"

\* isValidKey(key), on the values of the model
IsValidKey(key) == key.t \in {"num", "str", "date"}

\* a merge that stamps updatedAt whatever dataToSet holds
MergeRecordAlwaysStamps(record, dataToSet, primaryKeyPath, now) ==
  [f \in DOMAIN record \cup (DOMAIN dataToSet \ {primaryKeyPath}) \cup {"updatedAt"} |->
     IF f = "updatedAt" THEN Date(now)
     ELSE IF f \in DOMAIN dataToSet \ {primaryKeyPath} THEN dataToSet[f]
     ELSE record[f]]

\* a merge that lets the primary key of dataToSet through
MergeRecordKeepsKey(record, dataToSet, primaryKeyPath, now) ==
  [f \in DOMAIN record \cup DOMAIN dataToSet |->
     IF f \in DOMAIN dataToSet THEN dataToSet[f] ELSE record[f]]

\* The record update writes back for a matching record:
\* {...record, ...safeDataToSet, updatedAt: new Date() unless dataToSet has updatedAt}
MergeRecord(record, dataToSet, primaryKeyPath, now) ==
  LET safeKeys == DOMAIN dataToSet \ {primaryKeyPath}
      stamp == "updatedAt" \notin DOMAIN dataToSet
  IN [f \in DOMAIN record \cup safeKeys \cup (IF stamp THEN {"updatedAt"} ELSE {}) |->
        IF stamp /\ f = "updatedAt" THEN Date(now)
        ELSE IF f \in safeKeys THEN dataToSet[f]
        ELSE record[f]]

\* an update that writes all its matches back through one gateway call, which
\* carries the first of them
UpdateCallsOneForAll(o, op, matching, primaryKeyPath) ==
  IF matching = << >> THEN << >>
  ELSE << NewTx(o, op.store, "put",
                MergeRecord(matching[1], op.partial, primaryKeyPath, clock)) >>

\* the per-record gateway calls of update: put(updatedRecord) for each
\* matching record
UpdateCalls(o, op, matching, primaryKeyPath) ==
  [i \in 1..Len(matching) |->
     NewTx(o, op.store, "put",
           MergeRecord(matching[i], op.partial, primaryKeyPath, clock))]

\* the per-record gateway calls of executeDelete: delete(key) for each
\* matching record with a valid key
RECURSIVE DeleteCalls(_, _, _, _)
DeleteCalls(o, op, matching, primaryKeyPath) ==
  IF matching = << >> THEN << >>
  ELSE LET key == Field(Head(matching), primaryKeyPath)
           rest == DeleteCalls(o, op, Tail(matching), primaryKeyPath)
       IN IF IsValidKey(key)
            THEN << NewTx(o, op.store, "delete", key) >> \o rest
            ELSE rest

\* the gateway calls of operation o that write one matching record each
WritesOf(ts, o) == { u \in 1..Len(ts) : ts[u].op = o /\ ts[u].kind \in {"put", "delete"} }

Settle(op, state, result, err) ==
  [op EXCEPT !.state = state, !.result = result, !.error = err]

\* operation o replaced by op2
WithOp(os, ts, o, op2) == [ops |-> [os EXCEPT ![o] = op2], txs |-> ts]

\* Promise.all(promises) over the per-record gateway calls just made: an
\* already rejected one rejects the operation with the first such error, no
\* call at all resolves it, and otherwise it waits for them.
AwaitWrites(os, ts, o, op, calls) ==
  LET bad == { i \in 1..Len(calls) : calls[i].promise.state = "rejected" }
  IN IF bad # {}
       THEN WithOp(os, ts \o calls, o,
                   Settle(op, "rejected", Undefined,
                          calls[CHOOSE i \in bad : \A j \in bad : i <= j].promise.error))
     ELSE IF calls = << >>
       THEN WithOp(os, ts, o, Settle(op, "resolved", Undefined, ""))
     ELSE WithOp(os, ts \o calls, o, [op EXCEPT !.state = "write"])

\* update / executeDelete after getAllRecords resolved: the matching records
\* are written back, or deleted, each by a gateway call of its own.
WriteMatching(os, ts, o, op, matching, pk) ==
  IF pk = ""
    THEN WithOp(os, ts, o, Settle(op, "rejected", Undefined, "PrimaryKeyNotFound"))
    ELSE AwaitWrites(os, ts, o, op,
                     IF op.kind = "update"
                       THEN UpdateCalls(o, op, matching, pk)
                       ELSE DeleteCalls(o, op, matching, pk))

\* The continuation of operation o (op), which awaits a gateway call whose
\* promise p has settled.
Continue(os, ts, o, op, p) ==
  IF op.state = "read"
    THEN IF p.state = "rejected"
           THEN WithOp(os, ts, o, Settle(op, "rejected", Undefined, p.error))
         ELSE IF op.kind \in {"insert", "getAll"}
           THEN WithOp(os, ts, o, Settle(op, "resolved", p.result, ""))
         ELSE IF op.kind = "select"
           THEN WithOp(os, ts, o,
                       Settle(op, "resolved",
                              ApplyQuery(p.result, op.where, op.orderBy, op.limit), ""))
         ELSE WriteMatching(os, ts, o, [op EXCEPT !.snapshot = p.result],
                            ApplyQuery(p.result, op.where, << >>, NoLimit),
                            GetPrimaryKeyPath(SchemaColumns(op.schema, op.store)))
  ELSE IF op.state = "write"
    THEN IF p.state = "rejected"
           THEN WithOp(os, ts, o, Settle(op, "rejected", Undefined, p.error))
         ELSE IF \A u \in WritesOf(ts, o) : ts[u].promise.state = "resolved"
           THEN WithOp(os, ts, o, Settle(op, "resolved", Undefined, ""))
         ELSE [ops |-> os, txs |-> ts]
  ELSE [ops |-> os, txs |-> ts]

\* The gateway call t became tx2: the operations and gateway calls after the
\* continuation of the operation that awaits it has run.
AfterSettle(os, ts, t, tx2) ==
  Continue(os, [ts EXCEPT ![t] = tx2], tx2.op, os[tx2.op], tx2.promise)

\* the next operations and gateway calls
Becomes(after) == ops' = after.ops /\ txs' = after.txs

\* an operation's arguments: set(partial), where(conditions), orderBy, limit,
\* and the row of insert
Args(partial, conditions, orderBy, limitValue, row) ==
  [partial |-> partial, where |-> conditions, orderBy |-> orderBy,
   limit |-> limitValue, row |-> row]

Running(state) == state \in {"read", "write"}

\* this.tables[store].<kind>(...) called, up to the first await: a store
\* without operations makes the call throw a TypeError; otherwise insert
\* calls the gateway with add(row), and getAll, select, update and delete
\* call it with getAll().
StartOp(kind, store, q) ==
  LET o == Len(ops) + 1
      op == [kind |-> kind, store |-> store, partial |-> q.partial, where |-> q.where,
             orderBy |-> q.orderBy, limit |-> q.limit, state |-> "read",
             result |-> Undefined, error |-> "", snapshot |-> << >>,
             schema |-> tables[store], readyAtStart |-> ready, afterVc |-> vcDelivered,
             issued |-> FALSE,
             quietStart |-> \A u \in 1..Len(txs) : Finished(txs[u].phase),
             countAtStart |-> Cardinality(DOMAIN data[store])]
      tx == NewTx(o, store, IF kind = "insert" THEN "add" ELSE "getAll",
                  IF kind = "insert" THEN q.row ELSE << >>)
  IN IF tables[store] = 0
       THEN /\ ops' = Append(ops, Settle(op, "threw", Undefined, "TypeError"))
            /\ txs' = txs
       ELSE /\ txs' = Append(txs, tx)
            /\ ops' = Append(ops,
                        IF tx.phase = "refused"
                          THEN Settle(op, "rejected", Undefined, tx.promise.error)
                          ELSE [op EXCEPT !.issued = TRUE])

\* tx after the success event of its request: request.onsuccess ran
Succeeded(tx, r) ==
  [tx EXCEPT !.request = [result |-> r.result, error |-> ""],
             !.promise = RequestOnSuccess(@, [result |-> r.result, error |-> ""]),
             !.events = Append(@, "success"),
             !.write = r.write]

\* new Date() is read once per update, when its writes are prepared
ClockAfter(t) ==
  IF ops[txs[t].op].kind = "update" /\ txs[t].kind = "getAll" THEN clock + 1 ELSE clock

\* The backend carries out the request of gateway call t and reports its
\* success: request.onsuccess, then the continuation of the awaiting
\* operation. The transaction then commits (no handler of the gateway sees
\* the commit): its write is in the store.
ReqSuccess(t) ==
  /\ t \in 1..Len(txs)
  /\ CanRun(t)
  /\ LET r == ExecRequest(txs[t])
     IN /\ Becomes(AfterSettle(ops, txs, t,
                               [Succeeded(txs[t], r) EXCEPT !.phase = "done"]))
        /\ data' = [data EXCEPT ![txs[t].store] = ApplyWrite(@, r.write)]
        /\ nextKey' = [nextKey EXCEPT ![txs[t].store] =
                         IF txs[t].kind = "add" /\ r.write.key >= @
                           THEN r.write.key + 1 ELSE @]
  /\ clock' = ClockAfter(t)
  /\ UNCHANGED faults
  /\ UNCHANGED << handleVars, backendVars, obsVars, pureVars >>

\* The same success event, of a transaction that then fails to commit: its
\* write never reaches the store, and its abort event follows (TxAbort).
ReqSuccessNoCommit(t) ==
  /\ t \in 1..Len(txs)
  /\ CanRun(t)
  /\ faults < MaxFaults
  /\ faults' = faults + 1
  /\ Becomes(AfterSettle(ops, txs, t,
                         [Succeeded(txs[t], ExecRequest(txs[t])) EXCEPT !.phase = "reqdone"]))
  /\ clock' = ClockAfter(t)
  /\ UNCHANGED << data, nextKey >>
  /\ UNCHANGED << handleVars, backendVars, obsVars, pureVars >>

\* a failure handling that also drops the connection of the handle
ReqErrorDropsConnection(t) ==
  /\ t \in 1..Len(txs)
  /\ CanRun(t)
  /\ faults < MaxFaults
  /\ faults' = faults + 1
  /\ LET request == [result |-> Undefined, error |-> "RequestError"]
         tx2 == [txs[t] EXCEPT !.phase = "aborted",
                               !.request = request,
                               !.promise = PromiseReject(@, request.error),
                               !.events = @ \o << "error", "txerror", "abort" >>]
     IN Becomes(AfterSettle(ops, txs, t, tx2))
  /\ db' = 0
  /\ UNCHANGED << data, nextKey, clock >>
  /\ UNCHANGED << version, schemaDefinition, ready, readyReason, tables, opened >>
  /\ UNCHANGED << backendVars, obsVars, pureVars >>

\* The backend reports the failure of the request of gateway call t:
\* request.onerror, the error event at the transaction (transaction.onerror,
\* transaction.error still null), then the abort of the transaction
\* (transaction.onabort), then the continuation of the awaiting operation.
ReqError(t) ==
  /\ t \in 1..Len(txs)
  /\ CanRun(t)
  /\ faults < MaxFaults
  /\ faults' = faults + 1
  /\ LET request == [result |-> Undefined, error |-> "RequestError"]
         p1 == RequestOnError(txs[t].promise, request)
         p2 == TransactionOnError(p1, "null")
         p3 == TransactionOnAbort(p2, request.error)
         tx2 == [txs[t] EXCEPT !.phase = "aborted",
                               !.request = request,
                               !.promise = p3,
                               !.events = @ \o << "error", "txerror", "abort" >>]
     IN Becomes(AfterSettle(ops, txs, t, tx2))
  /\ UNCHANGED << data, nextKey, clock >>
  /\ UNCHANGED << handleVars, backendVars, obsVars, pureVars >>

\* The transaction of gateway call t aborts after its request succeeded:
\* transaction.onabort runs, then the continuation of the awaiting operation
\* if the promise settled now.
TxAbort(t) ==
  /\ t \in 1..Len(txs)
  /\ txs[t].phase = "reqdone"
  /\ LET tx2 == [txs[t] EXCEPT !.phase = "aborted",
                               !.promise = TransactionOnAbort(@, "TransactionError"),
                               !.events = Append(@, "abort")]
     IN Becomes(IF tx2.promise.state # txs[t].promise.state
                  THEN AfterSettle(ops, txs, t, tx2)
                  ELSE [ops |-> ops, txs |-> [txs EXCEPT ![t] = tx2]])
  /\ UNCHANGED << data, nextKey, faults, clock >>
  /\ UNCHANGED << handleVars, backendVars, obsVars, pureVars >>

(* --------------------------- the callers ------------------------------- *)
EmptyWhere == << >>
NoOrder == << >>

InsertRow == [title |-> Str(2), completed |-> Bool(FALSE), updatedAt |-> Null]

\* the conditions the callers pass to where()
Wheres ==
  { EmptyWhere,
    [f \in {"id"} |-> BareCond(Num(1))] }

\* the partial records the callers pass to set()
Partials ==
  { [f \in {"completed"} |-> Bool(TRUE)],
    [f \in {"id", "title", "updatedAt"} |->
       IF f = "id" THEN Num(7) ELSE IF f = "title" THEN Str(3) ELSE Null] }

DefaultArgs ==
  Args([f \in {"completed"} |-> Bool(TRUE)], EmptyWhere, NoOrder, NoLimit, InsertRow)

Kinds == {"insert", "getAll", "select", "update", "delete"}

\* A CRUD operation called on the handle at any moment of its life.
Invoke(kind, store) ==
  /\ Len(ops) < LifecycleOps
  /\ StartOp(kind, store, DefaultArgs)
  /\ UNCHANGED << data, nextKey, faults, clock >>
  /\ UNCHANGED << handleVars, backendVars, obsVars, pureVars >>

\* The CRUD operations called on a ready handle.
CallOp(kind, q) ==
  /\ Len(ops) < MaxOps
  /\ StartOp(kind, "todos", q)
  /\ UNCHANGED << data, nextKey, faults, clock >>
  /\ UNCHANGED << handleVars, backendVars, obsVars, pureVars >>

CallInsert == CallOp("insert", DefaultArgs)
CallGetAll == CallOp("getAll", DefaultArgs)
CallSelect(w) == CallOp("select", Args(<< >>, w, NoOrder, NoLimit, InsertRow))
CallUpdate(p, w) == CallOp("update", Args(p, w, NoOrder, NoLimit, InsertRow))
CallDelete(w) == CallOp("delete", Args(<< >>, w, NoOrder, NoLimit, InsertRow))

\* delete() awaited without where(): then() runs executeDelete with the
\* builder as it was constructed
AwaitDelete == CallOp("delete", Args(<< >>, EmptyWhere, NoOrder, NoLimit, InsertRow))

TxIds == 1..(MaxOps * (MaxRecords + 2))

Next ==
  \/ \E s \in SchemaIds : Open(s)
  \/ OnUpgradeNeeded
  \/ UpgradeAbort
  \/ OnSuccess
  \/ OnError
  \/ OtherRequestsNewerVersion
  \/ \E c \in ConnIds : OnVersionChange(c)
  \/ OtherUpgradeDone
  \/ \E k \in Kinds : Invoke(k, "todos")
  \/ \E t \in TxIds : ReqSuccess(t)
  \/ \E t \in TxIds : ReqSuccessNoCommit(t)
  \/ \E t \in TxIds : ReqError(t)
  \/ \E t \in TxIds : TxAbort(t)

Spec == Init /\ [][Next]_vars

(* ---------------- the CRUD operations on a ready handle ---------------- *)
\* The handle after open() of the todos schema resolved on a new database,
\* and the store after earlier inserts.
InitCrud ==
  /\ version = 1
  /\ db = 1
  /\ schemaDefinition = 1
  /\ ready = "resolved"
  /\ readyReason = "none"
  /\ tables = [n \in StoreNames |-> IF n = "todos" THEN 1 ELSE 0]
  /\ opened = 1
  /\ dbVersion = 1
  /\ stores = [n \in StoreNames |-> IF n = "todos" THEN TodosStore ELSE NoStore]
  /\ conns = [c \in ConnIds |-> IF c = 1 THEN "open" ELSE "none"]
  /\ openQueue = << >>
  /\ vcHandlers = {1}
  /\ otherPending = FALSE
  /\ vcPending = {}
  /\ \E n \in {0, MaxRecords} :
       /\ data = [s \in StoreNames |-> IF s = "todos" THEN SampleData(n) ELSE << >>]
       /\ nextKey = [s \in StoreNames |-> IF s = "todos" THEN n + 1 ELSE 1]
  /\ txs = << >>
  /\ faults = 0
  /\ ops = << >>
  /\ clock = 1
  /\ readyCalls = 1
  /\ settles = 1
  /\ upg = [ran |-> TRUE, schema |-> 1, before |-> [n \in StoreNames |-> NoStore],
            threw |-> FALSE, readyBefore |-> "pending"]
  /\ res = [done |-> TRUE, upgraded |-> TRUE, upgSchema |-> 1, schema |-> 1, missing |-> {},
            called |-> 1]
  /\ vcDelivered = FALSE
  /\ reloads = 0
  /\ InitBuilder("NUMBER")
  /\ InitQuery(<< >>)
  /\ InitProvider

NextCrud ==
  \/ CallInsert
  \/ CallGetAll
  \/ \E w \in Wheres : CallSelect(w)
  \/ \E p \in Partials, w \in Wheres : CallUpdate(p, w)
  \/ \E w \in Wheres : CallDelete(w)
  \/ AwaitDelete
  \/ \E t \in TxIds : ReqSuccess(t)
  \/ \E t \in TxIds : ReqSuccessNoCommit(t)
  \/ \E t \in TxIds : ReqError(t)
  \/ \E t \in TxIds : TxAbort(t)

SpecCrud == InitCrud /\ [][NextCrud]_vars

(* ----------------------- column builder calls -------------------------- *)
\* the outcome of a builder call: whether it threw, and this.definition after
Returned(d) == [threw |-> FALSE, definition |-> d]
Threw(d) == [threw |-> TRUE, definition |-> d]

\* primaryKey()
primaryKey(d) == Returned([d EXCEPT !._isPrimaryKey = "true"])

\* an autoIncrement() that sets the flag without looking at the definition
autoIncrementUnchecked(d) == Returned([d EXCEPT !._isAutoIncrement = "true"])

\* an autoIncrement() that sets the flag before it checks the definition
autoIncrementSetsFirst(d) ==
  IF ~Truthy(d._isPrimaryKey) \/ d._type # "NUMBER"
    THEN Threw([d EXCEPT !._isAutoIncrement = "true"])
    ELSE Returned([d EXCEPT !._isAutoIncrement = "true"])

\* autoIncrement()
autoIncrement(d) ==
  IF ~Truthy(d._isPrimaryKey) THEN Threw(d)
  ELSE IF d._type # "NUMBER" THEN Threw(d)
  ELSE Returned([d EXCEPT !._isAutoIncrement = "true"])

\* nullable(isNullable)
nullable(d, isNullable) ==
  IF isNullable THEN Returned([d EXCEPT !._isNullable = "true"])
  ELSE Returned([d EXCEPT !._isNullable = "absent"])

\* unique(isUnique)
unique(d, isUnique) ==
  IF Truthy(d._isPrimaryKey) /\ isUnique
    THEN IF ~Truthy(d._isPrimaryKey)
           THEN Returned([d EXCEPT !._isUnique = "true"])
         ELSE IF ~isUnique
           THEN Returned([d EXCEPT !._isUnique = "absent"])
         ELSE Returned(d)
    ELSE Returned([d EXCEPT !._isUnique = IF isUnique THEN "true" ELSE "false"])

\* A call on the builder: its outcome r is applied and the call is logged.
BuilderCall(name, r) ==
  /\ Len(builderCalls) < MaxCalls
  /\ definition' = r.definition
  /\ builderCalls' = Append(builderCalls, [name |-> name, threw |-> r.threw])
  /\ UNCHANGED built
  /\ UNCHANGED << handleVars, backendVars, crudVars, obsVars, queryVars, providerVars >>

CallPrimaryKey == BuilderCall("primaryKey", primaryKey(definition))
CallAutoIncrement == BuilderCall("autoIncrement", autoIncrement(definition))
CallNullable(isNullable) == BuilderCall("nullable", nullable(definition, isNullable))
CallUnique(isUnique) == BuilderCall("unique", unique(definition, isUnique))

\* build(): returns this.definition, the object the builder keeps writing to
CallBuild ==
  /\ Len(builderCalls) < MaxCalls
  /\ built' = Append(built, definition)
  /\ builderCalls' = Append(builderCalls, [name |-> "build", threw |-> FALSE])
  /\ UNCHANGED definition
  /\ UNCHANGED << handleVars, backendVars, crudVars, obsVars, queryVars, providerVars >>

\* IDB.string(), IDB.number(), ...: a new builder of any column type, beside
\* a handle nothing was done with
InitBuilders ==
  /\ InitHandle /\ version = 1
  /\ InitBackend /\ dbVersion = 0
  /\ InitCrudState
  /\ InitObs
  /\ \E type \in ColumnTypes : InitBuilder(type)
  /\ InitQuery(<< >>)
  /\ InitProvider

NextBuilder ==
  \/ CallPrimaryKey
  \/ CallAutoIncrement
  \/ \E b \in BOOLEAN : CallNullable(b)
  \/ \E b \in BOOLEAN : CallUnique(b)
  \/ CallBuild

SpecBuilder == InitBuilders /\ [][NextBuilder]_vars

(* ------------------------------ queries -------------------------------- *)
\* a where that keeps the earlier condition on a field named again
whereKeepsEarlier(old, new) ==
  [f \in DOMAIN old \cup DOMAIN new |-> IF f \in DOMAIN old THEN old[f] ELSE new[f]]

\* where(conditions): { ...this.conditions, ...conditions }
where(old, new) ==
  [f \in DOMAIN old \cup DOMAIN new |-> IF f \in DOMAIN new THEN new[f] ELSE old[f]]

\* orderBy(field, direction): push
orderBy(old, field, direction) ==
  Append(old, [field |-> field, direction |-> direction])

\* A call that changes the query drops the result observed for it.
QbWhere(c) ==
  /\ qbConditions' = where(qbConditions, c)
  /\ qbResult' = NoResult
  /\ UNCHANGED << qbLimit, qbOrderBy, qbData >>
  /\ UNCHANGED << handleVars, backendVars, crudVars, obsVars, builderVars, providerVars >>

QbLimit(count) ==
  /\ qbLimit' = count
  /\ qbResult' = NoResult
  /\ UNCHANGED << qbConditions, qbOrderBy, qbData >>
  /\ UNCHANGED << handleVars, backendVars, crudVars, obsVars, builderVars, providerVars >>

QbOrderBy(field, direction) ==
  /\ Len(qbOrderBy) < MaxOrder
  /\ qbOrderBy' = orderBy(qbOrderBy, field, direction)
  /\ qbResult' = NoResult
  /\ UNCHANGED << qbConditions, qbLimit, qbData >>
  /\ UNCHANGED << handleVars, backendVars, crudVars, obsVars, builderVars, providerVars >>

\* applyQuery(data)
QbApplyQuery ==
  /\ ~qbResult.done
  /\ qbResult' = [done |-> TRUE,
                  rows |-> ApplyQuery(qbData, qbConditions, qbOrderBy, qbLimit)]
  /\ UNCHANGED << qbConditions, qbLimit, qbOrderBy, qbData >>
  /\ UNCHANGED << handleVars, backendVars, crudVars, obsVars, builderVars, providerVars >>

\* the records the arrays are made of
QueryRecord(i) ==
  [id |-> Num(i), title |-> Str(IF i = 1 THEN 3 ELSE 2), completed |-> Bool(i % 2 = 0),
   updatedAt |-> IF i = 1 THEN Null ELSE Date(i - 1)]

QueryRecords == { QueryRecord(i) : i \in 1..4 }

\* the arrays applyQuery is called with: records of distinct keys, any order
DataSets ==
  { d \in UNION { [1..n -> QueryRecords] : n \in 0..MaxRows } :
      \A i, j \in 1..Len(d) : i # j => d[i] # d[j] }

\* the conditions the callers pass to where()
WhereArgs ==
  { [f \in {"completed"} |-> BareCond(Bool(TRUE))],
    [f \in {"updatedAt"} |-> BareCond(Date(1))],
    [f \in {"title"} |-> BareCond(Str(2))],
    [f \in {"completed", "title"} |->
       IF f = "completed" THEN BareCond(Bool(FALSE)) ELSE BareCond(Str(2))] }

OrderFields == {"title", "updatedAt"}
Directions == {"asc", "desc"}

InitQueries ==
  /\ InitHandle /\ version = 1
  /\ InitBackend /\ dbVersion = 0
  /\ InitCrudState
  /\ InitObs
  /\ InitBuilder("NUMBER")
  /\ \E d \in DataSets : InitQuery(d)
  /\ InitProvider

NextQuery ==
  \/ \E c \in WhereArgs : QbWhere(c)
  \/ \E n \in -1..MaxLimit : QbLimit(n)
  \/ \E f \in OrderFields, d \in Directions : QbOrderBy(f, d)
  \/ QbApplyQuery

SpecQuery == InitQueries /\ [][NextQuery]_vars

(* --------------------------- operator objects -------------------------- *)
\* a key matches() does not look for
OtherKeys == {"like"}

\* the operands a caller gives a key; any key may be present with undefined
OperandsOf(k) ==
  IF k \in ScalarKeys
    THEN { Operand(Num(1)), Operand(Str(2)), Operand(Null), Operand(Undefined) }
  ELSE IF k = "inArray"
    THEN { ArrayOperand(<< Num(1), Str(2) >>), ArrayOperand(<< Null >>), Operand(Undefined) }
  ELSE IF k = "isBetween"
    THEN { ArrayOperand(<< Num(1), Num(2) >>), ArrayOperand(<< Null, Num(2) >>),
           ArrayOperand(<< Num(1), Undefined >>), Operand(Undefined) }
  ELSE IF k \in {"contains", "looseContains"}
    THEN { Operand(Str(2)), Operand(Str(3)), Operand(Undefined) }
  ELSE { Operand(Str(2)) }

\* the operator objects of at most MaxKeys keys
OperatorObjects ==
  LET keys == OperatorKeys \cup OtherKeys
      operands == UNION { OperandsOf(k) : k \in keys }
  IN { o \in UNION { [K -> operands] :
                       K \in { S \in SUBSET keys : Cardinality(S) <= MaxKeys } } :
         \A k \in DOMAIN o : o[k] \in OperandsOf(k) }

\* the records matches() is given: the field holds a number, a string or
\* null, or the record has no such field
MatchRecords ==
  { [id |-> Num(1), value |-> v] : v \in { Num(1), Num(2), Str(1), Str(2), Null } }
    \cup { [id |-> Num(1)] }

InitMatches ==
  /\ InitHandle /\ version = 1
  /\ InitBackend /\ dbVersion = 0
  /\ InitCrudState
  /\ InitObs
  /\ InitBuilder("NUMBER")
  /\ \E r \in MatchRecords : InitQuery(<< r >>)
  /\ InitProvider

\* where({value: o}) once, then applyQuery
NextMatch ==
  \/ \E o \in OperatorObjects :
        /\ qbConditions = << >>
        /\ QbWhere([f \in {"value"} |-> OpCond(o)])
  \/ QbApplyQuery

SpecMatch == InitMatches /\ [][NextMatch]_vars

(* --------------------------- the select query -------------------------- *)
\* awaits that keep the conditions, limit and order they were started with
ReboundNot(os, conditions, limitValue, order) == os

\* The query object of tables.todos.select(): its builder is the query
\* builder of the model. An await of the query reads the builder when its
\* getAll() has resolved, so a chained call made in between reaches the
\* awaits that are still reading.
Rebound(os, conditions, limitValue, order) ==
  [o \in 1..Len(os) |->
     IF os[o].kind = "select" /\ os[o].state = "read"
       THEN [os[o] EXCEPT !.where = conditions, !.limit = limitValue, !.orderBy = order]
       ELSE os[o]]

FreshBuilder == qbConditions = << >> /\ qbLimit = NoLimit /\ qbOrderBy = << >>

\* a chained call or select() itself: the builder changes, nothing else
Chained(conditions, limitValue, order) ==
  /\ qbConditions' = conditions
  /\ qbLimit' = limitValue
  /\ qbOrderBy' = order
  /\ ops' = Rebound(ops, conditions, limitValue, order)
  /\ UNCHANGED << qbData, qbResult >>
  /\ UNCHANGED << data, nextKey, txs, faults, clock >>
  /\ UNCHANGED << handleVars, backendVars, obsVars, builderVars, providerVars >>

\* select(): a new query object with a new builder, called when the awaits
\* of the query before it have resolved
Select ==
  /\ ~FreshBuilder
  /\ \A o \in 1..Len(ops) : ops[o].kind = "select" => ops[o].state # "read"
  /\ Chained(<< >>, NoLimit, << >>)

SelectWhere(c) == Chained(where(qbConditions, c), qbLimit, qbOrderBy)

SelectLimit(count) == Chained(qbConditions, count, qbOrderBy)

SelectOrderBy(field, direction) ==
  /\ Len(qbOrderBy) < MaxOrder
  /\ Chained(qbConditions, qbLimit, orderBy(qbOrderBy, field, direction))

\* the arguments an await of the query runs with
SelectArgs == Args(<< >>, qbConditions, qbOrderBy, qbLimit, InsertRow)

\* then(...): the await of the query
SelectThen ==
  /\ CallOp("select", SelectArgs)

\* the chained calls of the callers
SelectWheres == { [f \in {"completed"} |-> BareCond(Bool(TRUE))] }
SelectLimits == {1}
SelectOrders == { << "title", "desc" >> }

NextSelect ==
  \/ Select
  \/ \E c \in SelectWheres : SelectWhere(c)
  \/ \E n \in SelectLimits : SelectLimit(n)
  \/ \E fd \in SelectOrders : SelectOrderBy(fd[1], fd[2])
  \/ SelectThen
  \/ CallInsert
  \/ \E t \in TxIds : ReqSuccess(t)
  \/ \E t \in TxIds : ReqError(t)

SpecSelect == InitCrud /\ [][NextSelect]_vars

(* ----------------------------- the provider ---------------------------- *)
\* IDBProvider creates one handle and, in an effect, calls open(schema) on it
\* and attaches a then and a catch handler to the promise open returns. That
\* promise follows this.readyPromise, so a handler runs once the readiness
\* promise has settled. The two state setters of a handler are committed
\* together (the tree is rendered by createRoot).

\* a catch handler that reports the handle as initialized
OnRejectedMarksInitialized(error) == [isDBInitialized |-> TRUE, dbInitializationError |-> error]

\* .then(() => { setIsDBInitialized(true); setDbInitializationError(null) })
OnFulfilled == [isDBInitialized |-> TRUE, dbInitializationError |-> "null"]

\* .catch((error) => { setIsDBInitialized(false); setDbInitializationError(...) })
OnRejected(error) ==
  [isDBInitialized |-> FALSE,
   dbInitializationError |-> IF error \in {"null", "none"}
                               THEN "Unknown initialization error" ELSE error]

\* the effect: dbInstance.open(schema).then(...).catch(...)
Effect(s) ==
  /\ OpenCall(s)
  /\ subscribed' = subscribed + 1
  /\ UNCHANGED << isDBInitialized, dbInitializationError >>

\* the then handler of one effect run
ThenHandler ==
  /\ subscribed > 0
  /\ ready = "resolved"
  /\ isDBInitialized' = OnFulfilled.isDBInitialized
  /\ dbInitializationError' = OnFulfilled.dbInitializationError
  /\ subscribed' = subscribed - 1
  /\ UNCHANGED << handleVars, backendVars, crudVars, obsVars, builderVars, queryVars >>

\* the catch handler of one effect run
CatchHandler ==
  /\ subscribed > 0
  /\ ready = "rejected"
  /\ isDBInitialized' = OnRejected(readyReason).isDBInitialized
  /\ dbInitializationError' = OnRejected(readyReason).dbInitializationError
  /\ subscribed' = subscribed - 1
  /\ UNCHANGED << handleVars, backendVars, crudVars, obsVars, builderVars, queryVars >>

NextProvider ==
  \/ \E s \in SchemaIds : Effect(s)
  \/ OnUpgradeNeeded
  \/ UpgradeAbort
  \/ OnSuccess
  \/ OnError
  \/ OtherRequestsNewerVersion
  \/ \E c \in ConnIds : OnVersionChange(c)
  \/ OtherUpgradeDone
  \/ ThenHandler
  \/ CatchHandler

SpecProvider == Init /\ [][NextProvider]_vars

(* ============================== properties ============================= *)
GatewayCalls == 1..Len(txs)
Operations == 1..Len(ops)

(* C1: a gateway call whose transaction aborted has a rejected result, also
   when the success event of its request came before the abort. *)
C1_AbortWinsOverSuccess ==
  \A t \in GatewayCalls :
    txs[t].phase = "aborted" => txs[t].promise.state = "rejected"

(* C9: a gateway call on an open connection settles its result at most once,
   whatever events follow; when the first event is the request's success the
   result is resolved with the request's result, when it is the request's
   failure the result is rejected with the request's error. *)
C9_GatewaySettlesOnce ==
  \A t \in GatewayCalls :
    /\ txs[t].promise.settles <= 1
    /\ txs[t].promise.settles = 1 <=> txs[t].promise.state # "pending"
    /\ ( txs[t].events # << >> /\ txs[t].events[1] = "success" ) =>
         /\ txs[t].promise.state = "resolved"
         /\ txs[t].promise.result = txs[t].request.result
    /\ ( txs[t].events # << >> /\ txs[t].events[1] = "error" ) =>
         /\ txs[t].promise.state = "rejected"
         /\ txs[t].promise.error = txs[t].request.error
         /\ txs[t].request.error = "RequestError"

\* the request of a gateway call failed: its three handlers ran, one settled
C9_RequestFailed ==
  \E t \in GatewayCalls :
    /\ txs[t].events = << "error", "txerror", "abort" >>
    /\ txs[t].promise.calls = 3
    /\ txs[t].promise.settles = 1
    /\ txs[t].promise.state = "rejected"

(* C6: update never adds a primary key to the store: the step in which the
   put of an update is applied leaves the store with no key that was absent
   from it before that step. *)
C6_UpdateNeverCreates ==
  [][ \A t \in GatewayCalls :
        ( txs[t].kind = "put" /\ txs[t].phase = "active" /\ txs'[t].phase = "done" )
          => DOMAIN data'[txs[t].store] \subseteq DOMAIN data[txs[t].store] ]_vars

(* C7: an update over several matching records in which the write of one
   record failed (its transaction aborted) is rejected. *)
C7_FailedWriteRejectsUpdate ==
  \A o \in Operations :
    ( /\ ops[o].kind = "update"
      /\ Cardinality(WritesOf(txs, o)) >= 2
      /\ \E t \in WritesOf(txs, o) : txs[t].phase = "aborted" )
      => ops[o].state = "rejected"

\* operation o is an update that has read its snapshot of the store, started
\* with no gateway call in flight, and no operation was started after it
UpdateAlone(o) ==
  /\ ops[o].kind = "update"
  /\ o = Len(ops)
  /\ ops[o].quietStart
  /\ \E t \in GatewayCalls :
       txs[t].op = o /\ txs[t].kind = "getAll" /\ txs[t].promise.state = "resolved"

\* the fields update may change on a matched record
Writable(o) == (DOMAIN ops[o].partial \ {"id"}) \cup {"updatedAt"}

\* Record now of the store is record before except in the fields of W.
SameExcept(before, now, W) ==
  \A f \in (DOMAIN before \cup DOMAIN now) \ W :
    f \in DOMAIN before /\ f \in DOMAIN now /\ now[f] = before[f]

(* C8: an update run without concurrent writers leaves the set of primary
   keys of the store as it found it, changes on a matched record only the
   fields named in partial (the primary key excepted) and updatedAt, and
   leaves unmatched records unchanged; once all its writes are committed,
   each matched record holds the values of partial in those fields. *)
C8_UpdateFrame ==
  \A o \in Operations :
    UpdateAlone(o) =>
      /\ Cardinality(DOMAIN data[ops[o].store]) = Len(ops[o].snapshot)
      /\ \A i \in 1..Len(ops[o].snapshot) :
           /\ ops[o].snapshot[i]["id"].v \in DOMAIN data[ops[o].store]
           /\ data[ops[o].store][ops[o].snapshot[i]["id"].v]["id"] = ops[o].snapshot[i]["id"]
           /\ SameExcept(ops[o].snapshot[i],
                         data[ops[o].store][ops[o].snapshot[i]["id"].v], Writable(o))
           /\ ~Matches(ops[o].snapshot[i], ops[o].where) =>
                data[ops[o].store][ops[o].snapshot[i]["id"].v] = ops[o].snapshot[i]
           /\ ( /\ Matches(ops[o].snapshot[i], ops[o].where)
                /\ ops[o].state = "resolved"
                /\ \A t \in WritesOf(txs, o) : txs[t].phase = "done" ) =>
                \A f \in DOMAIN ops[o].partial \ {"id"} :
                  data[ops[o].store][ops[o].snapshot[i]["id"].v][f] = ops[o].partial[f]

\* an update alone on the store, whose partial names the primary key, has
\* resolved after writing a matched record and leaving another one alone
C8_UpdatedWithKeyInPartial ==
  \E o \in Operations :
    /\ UpdateAlone(o)
    /\ ops[o].state = "resolved"
    /\ "id" \in DOMAIN ops[o].partial
    /\ \E i, j \in 1..Len(ops[o].snapshot) :
         /\ Matches(ops[o].snapshot[i], ops[o].where)
         /\ ~Matches(ops[o].snapshot[j], ops[o].where)
         /\ data[ops[o].store][ops[o].snapshot[i]["id"].v] # ops[o].snapshot[i]

(* C2: an operation invoked while the readiness promise is pending or
   rejected fails and places no backend request. *)
C2_NotReadyFailsFast ==
  \A o \in Operations :
    ops[o].readyAtStart # "resolved" =>
      /\ ~ops[o].issued
      /\ ops[o].state \in {"rejected", "threw"}

(* C3: the readiness promise is settled at most once, and once it is
   resolved or rejected no open call and no backend event changes its state
   or its rejection reason. *)
C3_ReadinessSingleAssignment ==
  [][ /\ settles' <= 1
      /\ ready # "pending" =>
           ( ready' = ready /\ readyReason' = readyReason /\ settles' = settles ) ]_vars

\* after the readiness promise was rejected, a later open request succeeded
\* and called resolveReady on it
C3_ResolveAfterReject ==
  /\ ready = "rejected"
  /\ settles = 1
  /\ readyCalls >= 2
  /\ db # 0
  /\ conns[db] = "open"

\* schema s has a store with no primary-key column or with several
InvalidSchema(s) ==
  \E n \in SchemaStoreNames(s) : PkCount(SchemaColumns(s, n)) # 1

(* C4: after the open requests of a handle whose schema has a store with
   zero or several primary-key columns have been answered (other than by a
   failure of the backend itself), the readiness promise is rejected with
   InvalidSchema and the backend holds the stores it held before. *)
C4_InvalidSchemaRejected ==
  ( /\ opened >= 1
    /\ openQueue = << >>
    /\ InvalidSchema(schemaDefinition)
    /\ readyReason # "OpenError" )
    => /\ ready = "rejected"
       /\ readyReason = "InvalidSchema"
       /\ upg.ran => stores = upg.before

(* C5: whenever the readiness promise is resolved, every store named in the
   schema of the handle exists in the backend. *)
C5_ReadyImpliesStoresExist ==
  ready = "resolved" =>
    \A n \in SchemaStoreNames(schemaDefinition) : stores[n].exists

(* C10: once a versionchange event was delivered to the handle, its
   connection is closed and a reload was signalled, and no operation started
   afterwards succeeds: it places no backend request and fails, rejected by
   the closed connection when its store has operations. *)
C10_VersionChangeInvalidates ==
  /\ vcDelivered => ( db # 0 /\ conns[db] = "closed" /\ reloads >= 1 )
  /\ \A o \in Operations :
       ops[o].afterVc =>
         /\ ~ops[o].issued
         /\ ops[o].state \in {"rejected", "threw"}
         /\ ops[o].state = "rejected" => ops[o].error = "InvalidStateError"

\* an operation was started on a Ready handle after the versionchange event
C10_OperationAfterVersionChange ==
  \E o \in Operations :
    /\ ops[o].afterVc
    /\ ops[o].readyAtStart = "resolved"
    /\ ops[o].state = "rejected"
    /\ reloads >= 1

\* operation o is rejected by this step
RejectedNow(o) ==
  /\ o \in 1..Len(ops')
  /\ ops'[o].state = "rejected"
  /\ o \in 1..Len(ops) => ops[o].state # "rejected"

(* C11: a step in which an operation is rejected leaves the readiness
   promise, the connection of the handle and the per-store operations as
   they were, and changes the state of no other operation. *)
C11_FailureIsLocal ==
  [][ \A o \in 1..Len(ops') :
        RejectedNow(o) =>
          /\ ready' = ready /\ readyReason' = readyReason
          /\ db' = db /\ conns' = conns
          /\ tables' = tables
          /\ \A p \in Operations \ {o} : ops'[p].state = ops[p].state ]_vars

\* an operation was rejected for a failed request, and an operation started
\* after that has resolved
C11_SucceedsAfterFailure ==
  \E o, p \in Operations :
    /\ o < p
    /\ ops[o].state = "rejected"
    /\ ops[o].error = "RequestError"
    /\ ops[p].quietStart
    /\ ops[p].state = "resolved"

(* C12: no connection opened for the handle is open other than the one the
   handle holds in _db. *)
C12_SingleOpenConnection ==
  \A c \in ConnIds : conns[c] = "open" => c = db

\* this step is a run of the onupgradeneeded handler
UpgradeHandlerRuns ==
  /\ openQueue # << >> /\ openQueue' # << >>
  /\ Head(openQueue).phase = "queued"
  /\ Head(openQueue').phase \in {"upgraded", "failed"}

(* C13: the upgrade handler leaves every store of the schema that the
   backend already holds, and its records, unchanged; when the backend holds
   every store of the schema the handler does not throw and readiness is not
   rejected by it; and once open has resolved, no further open call changes
   the stores of the backend. *)
C13_ExistingStoreSkipped ==
  [][ /\ UpgradeHandlerRuns =>
           /\ \A n \in SchemaStoreNames(schemaDefinition) :
                stores[n].exists => ( stores'[n] = stores[n] /\ data'[n] = data[n] )
           /\ ( \A n \in SchemaStoreNames(schemaDefinition) : stores[n].exists ) =>
                ( Head(openQueue').phase = "upgraded" /\ ready' = ready /\ stores' = stores )
      /\ ready = "resolved" => stores' = stores ]_vars

\* the second open call on a handle has been answered, after an upgrade that
\* found store todos in the backend, created store notes and resolved
C13_ReopenedOverExistingStore ==
  /\ opened = 2
  /\ openQueue = << >>
  /\ ready = "resolved"
  /\ upg.ran /\ ~upg.threw
  /\ upg.before["todos"].exists
  /\ ~upg.before["notes"].exists
  /\ stores["todos"] = upg.before["todos"]
  /\ stores["notes"].exists

(* C14: once the parsed schema of the handle is set it never changes, and
   the operations of a store stay bound to the schema they were made for. *)
C14_SchemaFixedOnce ==
  [][ /\ schemaDefinition # 0 => schemaDefinition' = schemaDefinition
      /\ \A n \in StoreNames : tables[n] # 0 => tables'[n] = tables[n] ]_vars

(* C15: whatever calls were made on a builder, a definition it holds or has
   returned with the auto-increment flag is a primary key of type NUMBER. *)
C15_AutoIncrementImpliesNumberKey ==
  /\ Truthy(definition._isAutoIncrement) =>
       ( Truthy(definition._isPrimaryKey) /\ definition._type = "NUMBER" )
  /\ \A i \in 1..Len(built) :
       Truthy(built[i]._isAutoIncrement) =>
         ( Truthy(built[i]._isPrimaryKey) /\ built[i]._type = "NUMBER" )

\* an auto-increment definition was built and the builder was called again
C15_AutoIncrementBuilt ==
  /\ Len(builderCalls) = MaxCalls
  /\ Truthy(definition._isAutoIncrement)
  /\ \E i \in 1..Len(built) : Truthy(built[i]._isAutoIncrement)
  /\ builderCalls[MaxCalls].name # "build"

\* this step is a call of autoIncrement()
AutoIncrementCalled ==
  /\ Len(builderCalls') = Len(builderCalls) + 1
  /\ builderCalls'[Len(builderCalls')].name = "autoIncrement"

(* C16: autoIncrement() called on a builder that is not a primary key, or
   whose type is not NUMBER, throws at that call and leaves the definition
   as it was, without the auto-increment flag. *)
C16_AutoIncrementFailsAtCall ==
  [][ ( /\ AutoIncrementCalled
        /\ ~Truthy(definition._isPrimaryKey) \/ definition._type # "NUMBER" )
        => /\ builderCalls'[Len(builderCalls')].threw
           /\ definition' = definition
           /\ ~Truthy(definition'._isAutoIncrement) ]_vars

\* autoIncrement() threw on a primary key that is not a NUMBER
C16_ThrewOnStringKey ==
  /\ Len(builderCalls) >= 2
  /\ builderCalls[Len(builderCalls)] = [name |-> "autoIncrement", threw |-> TRUE]
  /\ Truthy(definition._isPrimaryKey)
  /\ definition._type = "STRING"

(* C17: a definition returned by build() reads the same after any later
   builder call as it did when it was returned. *)
C17_BuildReturnsSnapshot ==
  \A i \in 1..Len(built) : built[i] = definition

\* the positions of the records with primary key k in a getAll() result
WithKey(result, k) == { i \in 1..Len(result) : result[i]["id"] = k }

(* C18: when insert(row) without a key has resolved with key k on the
   auto-increment store and the getAll() called next, with nothing else in
   flight, has resolved, its result holds exactly one record with primary
   key k, that record has the fields of row, and the result is one record
   longer than the store was when insert was called. *)
C18_InsertRoundTrip ==
  \A o \in Operations :
    ( /\ o + 1 \in Operations
      /\ ops[o].kind = "insert" /\ ops[o].quietStart /\ ops[o].state = "resolved"
      /\ ops[o + 1].kind = "getAll" /\ ops[o + 1].quietStart
      /\ ops[o + 1].state = "resolved" )
      => /\ Cardinality(WithKey(ops[o + 1].result, ops[o].result)) = 1
         /\ \A i \in WithKey(ops[o + 1].result, ops[o].result) :
              \A f \in DOMAIN InsertRow : ops[o + 1].result[i][f] = InsertRow[f]
         /\ Len(ops[o + 1].result) = ops[o].countAtStart + 1

\* every per-field condition of the query is a bare value equal to the record's field
SatisfiesAll(r) ==
  \A f \in DOMAIN qbConditions :
     qbConditions[f].bare /\ Field(r, f) = qbConditions[f].val

\* C19: select().where(conditions) without orderBy returns exactly the records
\* that satisfy every per-field condition (a bare value meaning equality with
\* the record's field value), in the order of the store.
C19_WhereReturnsMatching ==
  (qbResult.done /\ qbOrderBy = << >> /\ qbLimit = NoLimit)
     => qbResult.rows = SelectSeq(qbData, SatisfiesAll)

\* the place of a value among the values of its field: null lowest
Rank(v) == IF v = Null THEN -1 ELSE v.v

\* the place of record r under the i-th ordering key, in that key's direction
KeyRank(r, i) ==
  IF qbOrderBy[i].direction = "desc"
    THEN 0 - Rank(Field(r, qbOrderBy[i].field))
    ELSE Rank(Field(r, qbOrderBy[i].field))

\* a comes strictly before b: the first ordering key they differ on puts a first
Precedes(a, b) ==
  \E i \in 1..Len(qbOrderBy) :
     /\ KeyRank(a, i) < KeyRank(b, i)
     /\ \A j \in 1..(i - 1) : KeyRank(a, j) = KeyRank(b, j)

FilteredRecords == { qbData[i] : i \in { j \in 1..Len(qbData) : Matches(qbData[j], qbConditions) } }

ExpectedCount ==
  IF qbLimit >= 0 /\ qbLimit < Cardinality(FilteredRecords)
    THEN qbLimit ELSE Cardinality(FilteredRecords)

\* C20: with ordering keys (f1,d1),...,(fn,dn) the result is the filtered
\* records sorted by f1 in direction d1, ties broken by f2 in direction d2, and
\* so on in registration order (cut to the first records when a limit is set).
C20_SortedByKeysInOrder ==
  (qbResult.done /\ Len(qbOrderBy) > 0) =>
     /\ Len(qbResult.rows) = ExpectedCount
     /\ \A i \in 1..Len(qbResult.rows) : qbResult.rows[i] \in FilteredRecords
     /\ \A i, j \in 1..Len(qbResult.rows) :
           i < j => /\ qbResult.rows[i] # qbResult.rows[j]
                    /\ ~Precedes(qbResult.rows[j], qbResult.rows[i])
     /\ \A r \in FilteredRecords :
           (\A i \in 1..Len(qbResult.rows) : qbResult.rows[i] # r)
              => \A i \in 1..Len(qbResult.rows) : ~Precedes(r, qbResult.rows[i])

\* title ascending then updatedAt descending: the two records of equal title
\* come out latest first, ahead of the record of the greater title
C20_TieBrokenBySecondKey ==
  /\ qbResult.done
  /\ qbOrderBy = << [field |-> "title", direction |-> "asc"],
                    [field |-> "updatedAt", direction |-> "desc"] >>
  /\ qbData = << QueryRecord(2), QueryRecord(1), QueryRecord(4) >>
  /\ qbResult.rows = << QueryRecord(4), QueryRecord(2), QueryRecord(1) >>

\* the filtered records in the order the ordering keys give them
FilteredAndSorted == SortIfOrdered(Filter(qbData, qbConditions), qbOrderBy)

\* C21: limit(n) with n >= 0 returns exactly the first min(n, k) records of
\* the k-record filtered-and-sorted result, never more than n records.
C21_LimitAfterFilterAndSort ==
  (qbResult.done /\ qbLimit >= 0) =>
     /\ Len(qbResult.rows) <= qbLimit
     /\ Len(qbResult.rows) =
          (IF qbLimit < Len(FilteredAndSorted) THEN qbLimit ELSE Len(FilteredAndSorted))
     /\ \A i \in 1..Len(qbResult.rows) : qbResult.rows[i] = FilteredAndSorted[i]

\* a limit that cuts a sorted result whose first record is not the first
\* record of the store
C21_LimitCutsSortedResult ==
  /\ qbResult.done
  /\ qbLimit = 2
  /\ Len(qbOrderBy) > 0
  /\ Len(FilteredAndSorted) = 3
  /\ Len(qbResult.rows) = 2
  /\ qbResult.rows[1] = qbData[3]

(* ------------------------ operator objects: claims --------------------- *)
\* the query has one operator object, on the field value, and has been run
\* on the one record of the array
OperatorQueryDone ==
  /\ qbResult.done
  /\ DOMAIN qbConditions = {"value"}
  /\ ~qbConditions["value"].bare
  /\ Len(qbData) = 1

TheObject == qbConditions["value"].ops
ItemValue == Field(qbData[1], "value")
Matched == qbResult.rows = qbData
Excluded == qbResult.rows = << >>

\* the order of the keys
Precedence ==
  << "equals", "notEquals", "greaterThan", "greaterThanOrEqual", "lessThan",
     "lessThanOrEqual", "inArray", "isBetween", "contains", "looseContains" >>

RelationalKeys ==
  {"greaterThan", "greaterThanOrEqual", "lessThan", "lessThanOrEqual", "isBetween"}

\* the first key of the order that object o contains
FirstKey(o) ==
  Precedence[CHOOSE i \in 1..Len(Precedence) :
               /\ Precedence[i] \in DOMAIN o
               /\ \A j \in 1..(i - 1) : Precedence[j] \notin DOMAIN o]

NullOrMissing(v) == v \in {Null, Undefined}
OperandNullOrMissing(x) == \E i \in 1..Len(x.elems) : NullOrMissing(x.elems[i])

\* C22: a relational condition (greaterThan, greaterThanOrEqual, lessThan,
\* lessThanOrEqual, isBetween) does not match, and the query still completes,
\* whenever the record's field value or the operand is null or missing.
C22_RelationalNullSafe ==
  (/\ OperatorQueryDone
   /\ DOMAIN TheObject # {}
   /\ DOMAIN TheObject \subseteq RelationalKeys
   /\ \/ NullOrMissing(ItemValue)
      \/ OperandNullOrMissing(TheObject[FirstKey(TheObject)]))
     => Excluded

\* lessThanOrEqual 1 against a null field: no match
C22_NullFieldAgainstNumber ==
  /\ OperatorQueryDone
  /\ TheObject = [k \in {"lessThanOrEqual"} |-> Operand(Num(1))]
  /\ ItemValue = Null
  /\ Excluded

\* what the object made of key k of o alone gives for the record
KeyAloneMatches(o, k) == CondMatches(ItemValue, OpCond([x \in {k} |-> o[x]]))

HasRecognizedKey(o) == \E i \in 1..Len(Precedence) : Precedence[i] \in DOMAIN o

\* C28: an operator object is evaluated by the first key it contains in the
\* order equals, notEquals, greaterThan, greaterThanOrEqual, lessThan,
\* lessThanOrEqual, inArray, isBetween, contains, looseContains: that key alone
\* decides whether the record matches, and later keys are ignored.
C28_FirstKeyDecides ==
  (OperatorQueryDone /\ HasRecognizedKey(TheObject))
     => (Matched <=> KeyAloneMatches(TheObject, FirstKey(TheObject)))

\* key k of o has an operand matches() can use on the record's field value
Usable(o, k) ==
  IF k = "inArray" THEN o[k].array
  ELSE IF k = "isBetween" THEN o[k].array /\ Len(o[k].elems) = 2
  ELSE IF k \in {"contains", "looseContains"}
    THEN ItemValue.t = "str" /\ ~o[k].array /\ o[k].elems[1].t = "str"
  ELSE TRUE

UsableKeys(o) ==
  { i \in 1..Len(Precedence) : Precedence[i] \in DOMAIN o /\ Usable(o, Precedence[i]) }

FirstUsableKey(o) ==
  Precedence[CHOOSE i \in UsableKeys(o) : \A j \in UsableKeys(o) : i <= j]

\* C28 (amended): the object is evaluated by the first key of the order that it
\* contains with a usable operand (any operand for equals to lessThanOrEqual,
\* an array for inArray, an array of two for isBetween, a string against a
\* string field for contains and looseContains): that key alone decides, later
\* keys are ignored, and with no such key the record is excluded.
C28_FirstUsableKeyDecides ==
  OperatorQueryDone =>
     IF UsableKeys(TheObject) = {} THEN Excluded
     ELSE (Matched <=> KeyAloneMatches(TheObject, FirstUsableKey(TheObject)))

\* equals decides for the record although notEquals is against it
C28_EqualsBeforeNotEquals ==
  /\ OperatorQueryDone
  /\ TheObject = [k \in {"equals", "notEquals"} |-> Operand(Num(1))]
  /\ ItemValue = Num(1)
  /\ Matched

\* C29: a per-field condition that is an operator object with none of the
\* recognized keys excludes every record, and the query completes without error.
C29_UnrecognizedObjectExcludes ==
  (OperatorQueryDone /\ ~HasRecognizedKey(TheObject)) => Excluded

\* an object with an unknown key against a record whose field equals its operand
C29_UnknownKeyExcluded ==
  /\ OperatorQueryDone
  /\ TheObject = [k \in {"like"} |-> Operand(Str(2))]
  /\ ItemValue = Str(2)
  /\ Excluded

\* the value record rows[i] of the result has for the first ordering key
FirstKeyValue(i) == Field(qbResult.rows[i], qbOrderBy[1].field)

\* C30: in ordering by a key, a record whose value for the key is null comes
\* before every record with a non-null value under ascending direction and
\* after every such record under descending direction.
C30_NullPlacementFollowsDirection ==
  (qbResult.done /\ Len(qbOrderBy) > 0) =>
     \A i, j \in 1..Len(qbResult.rows) :
        (i < j /\ (FirstKeyValue(i) = Null) # (FirstKeyValue(j) = Null))
           => IF qbOrderBy[1].direction = "asc"
                THEN FirstKeyValue(i) = Null
                ELSE FirstKeyValue(j) = Null

\* descending by updatedAt: the record without a date, first in the store,
\* comes out last
C30_NullLastUnderDescending ==
  /\ qbResult.done
  /\ qbOrderBy = << [field |-> "updatedAt", direction |-> "desc"] >>
  /\ qbData = << QueryRecord(1), QueryRecord(2), QueryRecord(3) >>
  /\ qbResult.rows = << QueryRecord(3), QueryRecord(2), QueryRecord(1) >>

\* the primary-key columns of store n in the schema of the handle
PkColumnsOf(n) ==
  LET cols == SchemaColumns(schemaDefinition, n)
  IN { cols[i] : i \in { j \in 1..Len(cols) : cols[j].isPrimaryKey } }

(* C23: each store the upgrade handler creates is keyed by the name of the
   single primary-key column of its schema, and has auto-increment enabled
   if and only if that column is auto-increment. *)
C23_StoreKeyedByPrimaryKey ==
  [][ UpgradeHandlerRuns =>
        \A n \in StoreNames :
           (~stores[n].exists /\ stores'[n].exists) =>
              /\ n \in SchemaStoreNames(schemaDefinition)
              /\ \E col \in PkColumnsOf(n) :
                    /\ PkColumnsOf(n) = {col}
                    /\ stores'[n].keyPath = col.name
                    /\ stores'[n].autoIncrement = col.isAutoIncrement ]_vars

\* the upgrade handler has created both stores on an empty database: todos
\* keyed by id with auto-increment, notes keyed by key without
C23_BothStoresCreated ==
  /\ upg.ran /\ ~upg.threw
  /\ \A n \in StoreNames : ~upg.before[n].exists
  /\ stores["todos"].exists /\ stores["todos"].keyPath = "id"
  /\ stores["todos"].autoIncrement
  /\ stores["notes"].exists /\ stores["notes"].keyPath = "key"
  /\ ~stores["notes"].autoIncrement

\* the keys of the records of its snapshot that operation o matched
MatchedKeys(o) ==
  { ops[o].snapshot[i]["id"].v :
      i \in { j \in 1..Len(ops[o].snapshot) : Matches(ops[o].snapshot[j], ops[o].where) } }

\* the key gateway call t writes
WrittenKey(t) == IF txs[t].kind = "put" THEN txs[t].arg["id"].v ELSE txs[t].arg.v

\* the store differs from what it was in at most one record
OneRecordChanged(before, now) ==
  Cardinality({ k \in DOMAIN before \cup DOMAIN now :
                  k \notin DOMAIN before \/ k \notin DOMAIN now \/ before[k] # now[k] }) <= 1

(* C24: update and delete write each matched record through a gateway call,
   and so a transaction, of its own, one per matched record, and no step of
   the backend commits more than one record: a batch is not atomic. *)
C24_OneTransactionPerRecord ==
  [][ /\ \A o \in 1..Len(ops') :
           (ops'[o].kind \in {"update", "delete"} /\ ops'[o].state # "read") =>
              LET W == { t \in 1..Len(txs') :
                           txs'[t].op = o /\ txs'[t].kind \in {"put", "delete"} }
              IN /\ { IF txs'[t].kind = "put" THEN txs'[t].arg["id"].v ELSE txs'[t].arg.v
                        : t \in W }
                      = { ops'[o].snapshot[i]["id"].v :
                            i \in { j \in 1..Len(ops'[o].snapshot) :
                                      Matches(ops'[o].snapshot[j], ops'[o].where) } }
                 /\ Cardinality(W) = Cardinality({ j \in 1..Len(ops'[o].snapshot) :
                                      Matches(ops'[o].snapshot[j], ops'[o].where) })
      /\ \A n \in StoreNames : OneRecordChanged(data[n], data'[n]) ]_vars

\* a getAll() called while the writes of an update of two records were in
\* flight has returned one of the two as the update found it and the other
\* as the update wrote it
C24_ReadSeesHalfOfUpdate ==
  \E u, g \in Operations :
     /\ ops[u].kind = "update" /\ ops[g].kind = "getAll"
     /\ u < g
     /\ ~ops[g].quietStart
     /\ ops[g].state = "resolved"
     /\ MatchedKeys(u) = {1, 2}
     /\ Len(ops[g].result) = 2
     /\ \E i, j \in 1..2 :
           /\ i # j
           /\ ops[g].result[i] = ops[u].snapshot[i]
           /\ ops[g].result[j] # ops[u].snapshot[j]
           /\ \E t \in GatewayCalls :
                 /\ txs[t].op = u /\ txs[t].kind = "put"
                 /\ ops[g].result[j] = txs[t].arg

(* C25: in the step that resolves the readiness promise, the operations of
   every store of the schema are present: for each open call awaiting the
   promise, every store of the schema it was called with has its operations. *)
C25_OperationsPresentAtResolve ==
  [][ (ready = "pending" /\ ready' = "resolved") =>
        \A i \in 1..Len(openQueue) :
           \A n \in SchemaStoreNames(openQueue[i].schema) : tables'[n] # 0 ]_vars

\* operation o is a delete called with nothing in flight, the last operation
\* called, and its getAll() has resolved
DeleteAlone(o) ==
  /\ ops[o].kind = "delete"
  /\ o = Len(ops)
  /\ ops[o].quietStart
  /\ \E t \in GatewayCalls :
       txs[t].op = o /\ txs[t].kind = "getAll" /\ txs[t].promise.state = "resolved"

\* the records of its snapshot that a delete leaves: those that do not match
Unmatched(o) ==
  { i \in 1..Len(ops[o].snapshot) : ~Matches(ops[o].snapshot[i], ops[o].where) }

(* C26: a delete run without concurrent writers never changes or removes a
   record that does not match and adds none; once it has resolved with all
   its transactions committed, the store holds exactly the records that did
   not match, unchanged. *)
C26_DeleteRemovesExactlyMatches ==
  \A o \in Operations :
    DeleteAlone(o) =>
      /\ \A i \in Unmatched(o) :
           /\ ops[o].snapshot[i]["id"].v \in DOMAIN data[ops[o].store]
           /\ data[ops[o].store][ops[o].snapshot[i]["id"].v] = ops[o].snapshot[i]
      /\ DOMAIN data[ops[o].store]
           \subseteq { ops[o].snapshot[i]["id"].v : i \in 1..Len(ops[o].snapshot) }
      /\ ( /\ ops[o].state = "resolved"
           /\ \A t \in GatewayCalls : txs[t].op = o => txs[t].phase = "done" ) =>
             /\ DOMAIN data[ops[o].store]
                  = { ops[o].snapshot[i]["id"].v : i \in Unmatched(o) }
             /\ \A k \in DOMAIN data[ops[o].store] :
                  ~Matches(data[ops[o].store][k], ops[o].where)

\* a delete alone on a store of two records has resolved after removing the
\* one that matched and leaving the other
C26_DeletedOneOfTwo ==
  \E o \in Operations :
    /\ DeleteAlone(o)
    /\ ops[o].state = "resolved"
    /\ \A t \in GatewayCalls : txs[t].op = o => txs[t].phase = "done"
    /\ Len(ops[o].snapshot) = 2
    /\ Cardinality(Unmatched(o)) = 1
    /\ Cardinality(DOMAIN data[ops[o].store]) = 1

\* the gateway calls of operation o after the step
CallsOfNext(o) == { t \in 1..Len(txs') : txs'[t].op = o }

\* filter, then sort, then limit, of snapshot by the builder of the query
QueryOf(snapshot) ==
  LET filtered == SelectSeq(snapshot, LAMBDA r : Matches(r, qbConditions))
      sorted == IF qbOrderBy = << >> THEN filtered ELSE SortBy(filtered, qbOrderBy)
  IN IF qbLimit >= 0 /\ qbLimit < Len(sorted) THEN SubSeq(sorted, 1, qbLimit) ELSE sorted

(* C27: select() and the chained where, limit and orderBy calls place no
   backend request; each await of the query places exactly one, a getAll()
   of the store, and resolves with filter, then sort, then limit applied to
   the records that getAll() returned. *)
C27_SelectReadsOncePerAwait ==
  [][ /\ (qbConditions' # qbConditions \/ qbLimit' # qbLimit \/ qbOrderBy' # qbOrderBy)
          => (txs' = txs /\ data' = data /\ Len(ops') = Len(ops))
      /\ \A o \in 1..Len(ops') :
           (ops'[o].kind = "select" /\ ops'[o].issued) =>
              /\ Cardinality(CallsOfNext(o)) = 1
              /\ \A t \in CallsOfNext(o) : txs'[t].kind = "getAll"
              /\ (o \in 1..Len(ops) /\ ops[o].state = "read" /\ ops'[o].state = "resolved")
                   => \A t \in CallsOfNext(o) :
                        ops'[o].result = QueryOf(txs'[t].request.result) ]_vars

\* two awaits of one query have resolved, the second after a chained limit(1)
\* made while it was reading: each placed its own getAll(), and the second
\* returned the one record the conditions, the order and the limit leave
C27_AwaitedTwice ==
  /\ Len(ops) = 2
  /\ \A o \in {1, 2} : ops[o].kind = "select" /\ ops[o].state = "resolved"
  /\ Len(txs) = 2
  /\ \A t \in {1, 2} : txs[t].kind = "getAll" /\ Len(txs[t].request.result) = 2
  /\ qbConditions # << >> /\ qbOrderBy # << >> /\ qbLimit = 1
  /\ ops[1].limit = NoLimit
  /\ ops[2].limit = 1
  /\ Len(ops[2].result) = 1

\* the gateway calls the step has added that write a record of an update back
NewPuts ==
  { t \in (Len(txs) + 1)..Len(txs') :
      txs'[t].kind = "put" /\ ops'[txs'[t].op].kind = "update" }

(* C31: the record an update writes back has updatedAt set to the time of the
   update if and only if partial has no updatedAt key; when partial has the
   key, its value, null included, is written as it is. *)
C31_StampUnlessGiven ==
  [][ \A t \in NewPuts :
        LET partial == ops'[txs'[t].op].partial
        IN /\ "updatedAt" \in DOMAIN txs'[t].arg
           /\ IF "updatedAt" \in DOMAIN partial
                THEN txs'[t].arg["updatedAt"] = partial["updatedAt"]
                ELSE txs'[t].arg["updatedAt"] = Date(clock) ]_vars

\* two updates have written: one without updatedAt in partial, whose record
\* carries a new date, and one with updatedAt null in partial, whose record,
\* dated before, carries null
C31_StampedAndGiven ==
  \E t, u \in GatewayCalls :
     /\ txs[t].kind = "put" /\ txs[u].kind = "put"
     /\ txs[t].phase = "done" /\ txs[u].phase = "done"
     /\ ops[txs[t].op].kind = "update" /\ ops[txs[u].op].kind = "update"
     /\ "updatedAt" \notin DOMAIN ops[txs[t].op].partial
     /\ txs[t].arg["updatedAt"].t = "date"
     /\ txs[t].arg["updatedAt"] \notin
          { ops[txs[t].op].snapshot[i]["updatedAt"] : i \in 1..Len(ops[txs[t].op].snapshot) }
     /\ "updatedAt" \in DOMAIN ops[txs[u].op].partial
     /\ ops[txs[u].op].partial["updatedAt"] = Null
     /\ txs[u].arg["updatedAt"] = Null
     /\ \E i \in 1..Len(ops[txs[u].op].snapshot) :
           /\ ops[txs[u].op].snapshot[i]["id"] = txs[u].arg["id"]
           /\ ops[txs[u].op].snapshot[i]["updatedAt"] # Null

(* C32: a delete awaited without where() runs with no condition, which every
   record matches: run without concurrent writers it places one delete for
   each record getAll() returned, and once it has resolved with all its
   transactions committed the store is empty. *)
C32_DeleteWithoutWhereDeletesAll ==
  \A o \in Operations :
    (DeleteAlone(o) /\ ops[o].where = EmptyWhere) =>
      /\ { txs[t].arg.v : t \in { u \in GatewayCalls : txs[u].op = o /\ txs[u].kind = "delete" } }
           = { ops[o].snapshot[i]["id"].v : i \in 1..Len(ops[o].snapshot) }
      /\ ( /\ ops[o].state = "resolved"
           /\ \A t \in GatewayCalls : txs[t].op = o => txs[t].phase = "done" ) =>
             DOMAIN data[ops[o].store] = {}

\* a delete without conditions, alone on a store of two records, has resolved
\* and the store is empty
C32_StoreEmptied ==
  \E o \in Operations :
    /\ DeleteAlone(o)
    /\ ops[o].where = EmptyWhere
    /\ ops[o].state = "resolved"
    /\ \A t \in GatewayCalls : txs[t].op = o => txs[t].phase = "done"
    /\ Len(ops[o].snapshot) = 2
    /\ DOMAIN data[ops[o].store] = {}

\* conditions after is conditions before with the conditions of c merged in
\* per field: the fields of c hold c's conditions, the others are kept
MergedPerField(before, c, after) ==
  /\ DOMAIN after = DOMAIN before \cup DOMAIN c
  /\ \A f \in DOMAIN c : after[f] = c[f]
  /\ \A f \in DOMAIN before \ DOMAIN c : after[f] = before[f]

(* C33: each where() call merges its conditions into those of the query per
   field, a later condition on a field replacing the earlier one; two where()
   calls that name different fields give the same conditions in either
   order; and the result holds exactly the records that satisfy the
   condition of every field (here without orderBy and limit, in store order). *)
C33_WhereMergesPerField ==
  [][ /\ qbConditions' # qbConditions =>
           /\ \E c \in WhereArgs : MergedPerField(qbConditions, c, qbConditions')
           /\ \A c \in WhereArgs :
                /\ MergedPerField(qbConditions', c, where(qbConditions', c))
                /\ \A b \in WhereArgs :
                     DOMAIN b \cap DOMAIN c = {} =>
                       where(where(qbConditions, b), c) = where(where(qbConditions, c), b)
      /\ (qbResult' # qbResult /\ qbResult'.done /\ qbOrderBy' = << >> /\ qbLimit' = NoLimit) =>
           qbResult'.rows =
             SelectSeq(qbData', LAMBDA r :
                \A f \in DOMAIN qbConditions' :
                   CondMatches(Field(r, f), qbConditions'[f])) ]_vars

\* conditions on completed and on title, which no single where() call of the
\* callers gives, have been applied together: of the three records with the
\* title, in the store with one of another title, the two completed ones
\* are returned
C33_TwoFieldsApplied ==
  /\ qbResult.done
  /\ qbOrderBy = << >> /\ qbLimit = NoLimit
  /\ qbConditions = [f \in {"completed", "title"} |->
                       IF f = "completed" THEN BareCond(Bool(TRUE)) ELSE BareCond(Str(2))]
  /\ qbData = << QueryRecord(2), QueryRecord(3), QueryRecord(1) >>
  /\ qbResult.rows = << QueryRecord(2) >>

(* C34: in the provider, isDBInitialized = true and dbInitializationError
   # null never hold together, and isDBInitialized turns true only in a step
   taken when the promise open returns is already resolved. *)
C34_InitializedExcludesError ==
  [][ /\ ~(isDBInitialized /\ dbInitializationError # "null")
      /\ ~(isDBInitialized' /\ dbInitializationError' # "null")
      /\ (isDBInitialized' /\ ~isDBInitialized) => ready = "resolved" ]_vars

\* Both effect runs were answered, one of the two open requests failed, and
\* the provider shows the handle initialized without an error.
C34_InitializedAfterFailedRequest ==
  /\ isDBInitialized /\ dbInitializationError = "null"
  /\ opened = MaxOpens /\ subscribed = 0
  /\ readyCalls = 2 /\ settles = 1 /\ ready = "resolved"

====
